---- MODULE Spec2Model ----
(***************************************************************************)
(* Proof-of-Stake testbed (src/pos-blockchain): the chain store            *)
(* (blockchain.py), the wallet (wallet_manager.py), blocks and             *)
(* transactions (block.py, transaction.py) and the node's handlers         *)
(* (node.py), for a small set of nodes that exchange messages through the  *)
(* relay.                                                                  *)
(*                                                                         *)
(* SHA-256 is modelled as an injective function of the string it hashes:   *)
(* a hash is the tuple of the fields that the code formats into that       *)
(* string.  Amounts are integers; a timestamp is an integer number of      *)
(* clock ticks, TicksPerSecond of them to a second.                        *)
(***************************************************************************)
EXTENDS Integers, Sequences, FiniteSets, TLC

VARIABLES
    chain,             \* node -> Blockchain.chain
    blocks_by_hash,    \* node -> Blockchain.blocks_by_hash
    wallet,            \* node -> Blockchain.wallet.accounts
    reorg_removed,     \* node -> Blockchain.reorg_removed
    mempool,           \* node -> Node.mempool
    known_nodes,       \* node -> Node.known_nodes
    sync_in_progress,  \* node -> Node.sync_in_progress
    sync_responses,    \* node -> Node.sync_responses
    sync_timers,       \* node -> the sync Timers started and not yet fired
    inbox,             \* node -> the frames the relay has written to the node
    clock,             \* node -> time.time() of its process, in ticks
    last,              \* what the chain store did in the last handler: whether
                       \* it raised, whether the reorg listeners ran, and where
    config,            \* config.yaml: the sections vote and initial_state
    pending_blocks,      \* node -> Node.pending_blocks
    pending_block_votes, \* node -> Node.pending_block_votes
    vote_timers,       \* node -> the hashes whose vote Timer has not yet fired
    dispatcher,        \* node -> where the thread of Client.wait_loop stands
    server,            \* the relay: the fields of BlockchainServerAsync, its
                       \* tasks, and the frames it has read and written
    manager,           \* a WalletManager and what the last call on it returned
    timer,             \* a Timer of timer.py, its threading.Timer objects and
                       \* the place of their thread in _run
    data_dir,          \* node -> the chain in blocks.json, <<>> when none
    attack_detector,   \* the DoubleSpendingDetector and the AttackAlertManager of
                       \* an AttackDetectionServer, and what the last intake returned
    connection         \* the bytes of one connection to the relay and the buffer
                       \* and messages of the task that reads it

vars == <<chain, blocks_by_hash, wallet, reorg_removed, mempool, known_nodes,
          sync_in_progress, sync_responses, sync_timers, inbox, clock, last,
          config, pending_blocks, pending_block_votes, vote_timers, dispatcher,
          server, manager, timer, data_dir, attack_detector, connection>>

\* the state of the vote on pending blocks
voting == <<pending_blocks, pending_block_votes, vote_timers>>

(***************************************************************************)
(* Bounds of the model.                                                    *)
(***************************************************************************)
\* transactions created and blocks forged by one node (each takes a clock
\* tick), once every sync has ended
MaxClock == 3
\* the same, in the runs that begin while Joiner's sync is under way
JoinClock == 2
\* SYNC_RESPONSE frames of peers outside Nodes that one node is sent
MaxPeerResponses == 1
\* largest amount a command may name
MaxAmount == 2
\* height above which no node forges
MaxHeight == 2
\* messages the relay holds for one destination; further ones are dropped
MaxInbox == 2
\* the commands that the nodes of a voting network run between them
MaxCommands == 3
\* frames that the relay reads from its clients
MaxFrames == 3
\* STEP frames that the relay broadcasts
MaxSteps == 1
\* connections that are lost otherwise than by the relay's closing them
MaxLost == 1
\* the funds above which no deposit is made into a wallet
MaxFunds == 3
\* largest repeat count of a Timer
MaxRepeat == 2
\* callbacks that one start of a Timer is followed through
MaxCalls == 3
\* threading.Timer objects that wait though the Timer no longer refers to them
MaxStale == 1
\* the calls of add_transaction and add_block on a detector
MaxIntakes == 3
\* the messages sent on a connection and the bytes of each
MaxMessages == 2
MaxPayload == 2
\* the delays, in ticks of the relay's clock, that the delay command sets
MaxDelay == 2
\* clock ticks to one second of time.time()
TicksPerSecond == 2

Nodes == {"n1", "n2"}

TRANSFER == "TRANSFER"
STAKE == "STAKE"
UNSTAKE == "UNSTAKE"
TxTypes == {TRANSFER, STAKE, UNSTAKE}

\* the types the tx, stake and unstake commands of a run use
CommandTypes == {TRANSFER}

(***************************************************************************)
(* Small helpers on sequences.                                             *)
(***************************************************************************)
Range(s) == {s[i] : i \in DOMAIN s}

Last(s) == s[Len(s)]

\* Python's s[k:], with k counted from 0
From(s, k) == SubSeq(s, k + 1, Len(s))

\* Python's s[:k]
Upto(s, k) == SubSeq(s, 1, IF k < Len(s) THEN k ELSE Len(s))

\* Python's s[:-1]
Front(s) == SubSeq(s, 1, Len(s) - 1)

(***************************************************************************)
(* transaction.py                                                          *)
(***************************************************************************)
Transaction(sender, receiver, amount, timestamp, type) ==
    [sender |-> sender, receiver |-> receiver, amount |-> amount,
     timestamp |-> timestamp, type |-> type]

\* the string both tx_id and Block.compute_hash format: the type is not in it
TxString(tx) == <<tx.sender, tx.receiver, tx.amount, tx.timestamp>>

tx_id(tx) == TxString(tx)

\* int(timestamp)
IntTime(t) == t \div TicksPerSecond

\* Transaction.__eq__
TxEq(a, b) ==
    /\ a.sender = b.sender
    /\ a.receiver = b.receiver
    /\ a.amount = b.amount
    /\ IntTime(a.timestamp) = IntTime(b.timestamp)
    /\ a.type = b.type

\* Python's "tx in list"
TxIn(tx, list) == \E i \in DOMAIN list : TxEq(list[i], tx)

\* Python's list.remove(tx): the first element equal to tx goes
ListRemove(list, tx) ==
    IF ~TxIn(tx, list) THEN list
    ELSE LET i == CHOOSE k \in DOMAIN list :
                     /\ TxEq(list[k], tx)
                     /\ \A j \in 1..(k - 1) : ~TxEq(list[j], tx)
         IN SubSeq(list, 1, i - 1) \o SubSeq(list, i + 1, Len(list))

(***************************************************************************)
(* block.py                                                                *)
(***************************************************************************)
\* "0" * 64
ZeroHash == <<>>

compute_hash(index, prev_hash, timestamp, validator, transactions) ==
    <<index, prev_hash, timestamp, validator,
      [i \in DOMAIN transactions |-> TxString(transactions[i])]>>

BlockHash(b) ==
    compute_hash(b.index, b.prev_hash, b.timestamp, b.validator, b.transactions)

Block(index, prev_hash, transactions, validator, timestamp) ==
    [index |-> index, prev_hash |-> prev_hash, timestamp |-> timestamp,
     validator |-> validator, transactions |-> transactions,
     hash |-> compute_hash(index, prev_hash, timestamp, validator, transactions)]

genesis_block == Block(0, ZeroHash, <<>>, "genesis", 0)

(***************************************************************************)
(* wallet_manager.py: accounts is a Python dict, which keeps the order in  *)
(* which its keys were inserted; it is a sequence of entries here.         *)
(***************************************************************************)
HasAccount(w, a) == \E i \in DOMAIN w : w[i].id = a

AccountIndex(w, a) == CHOOSE i \in DOMAIN w : w[i].id = a

_ensure_account(w, a) ==
    IF HasAccount(w, a) THEN w
    ELSE Append(w, [id |-> a, balance |-> 0, stake |-> 0])

get_balance(w, a) == IF HasAccount(w, a) THEN w[AccountIndex(w, a)].balance ELSE 0

get_stake(w, a) == IF HasAccount(w, a) THEN w[AccountIndex(w, a)].stake ELSE 0

\* a deposit that creates the account and credits nothing
NoCredit(w, a, amount) == _ensure_account(w, a)

deposit(w, a, amount) ==
    LET w1 == _ensure_account(w, a)
    IN [w1 EXCEPT ![AccountIndex(w1, a)].balance = @ + amount]

\* a withdraw that does not test the balance
Overdraw(w, a, amount) ==
    LET w1 == _ensure_account(w, a)
    IN [ok |-> TRUE,
        wallet |-> [w1 EXCEPT ![AccountIndex(w1, a)].balance = @ - amount]]

\* a stake_tokens that debits the balance and credits nothing
StakeLost(w, a, amount) ==
    LET w1 == _ensure_account(w, a)
        i == AccountIndex(w1, a)
    IN IF amount > w1[i].balance THEN [ok |-> FALSE, wallet |-> w1]
       ELSE [ok |-> TRUE, wallet |-> [w1 EXCEPT ![i].balance = @ - amount]]

\* withdraw, stake_tokens, unstake_tokens: [ok, wallet]
withdraw(w, a, amount) ==
    LET w1 == _ensure_account(w, a)
        i == AccountIndex(w1, a)
    IN IF amount > w1[i].balance THEN [ok |-> FALSE, wallet |-> w1]
       ELSE [ok |-> TRUE, wallet |-> [w1 EXCEPT ![i].balance = @ - amount]]

stake_tokens(w, a, amount) ==
    LET w1 == _ensure_account(w, a)
        i == AccountIndex(w1, a)
    IN IF amount > w1[i].balance THEN [ok |-> FALSE, wallet |-> w1]
       ELSE [ok |-> TRUE,
             wallet |-> [w1 EXCEPT ![i].balance = @ - amount,
                                   ![i].stake = @ + amount]]

unstake_tokens(w, a, amount) ==
    LET w1 == _ensure_account(w, a)
        i == AccountIndex(w1, a)
    IN IF amount > w1[i].stake THEN [ok |-> FALSE, wallet |-> w1]
       ELSE [ok |-> TRUE,
             wallet |-> [w1 EXCEPT ![i].stake = @ - amount,
                                   ![i].balance = @ + amount]]

\* set_state: the accounts of the configured state, in the configured order
set_state(state) ==
    [i \in DOMAIN state |->
        [id |-> state[i].id, balance |-> state[i].balance, stake |-> state[i].stake]]

\* the account -> (balance, stake) map a wallet holds, whatever its order
AccountMap(w) == {<<w[i].id, w[i].balance, w[i].stake>> : i \in DOMAIN w}

(***************************************************************************)
(* blockchain.py                                                           *)
(***************************************************************************)
\* load_config(section="initial_state"): the configured genesis accounts
initial_state == config.initial_state

genesis_state == initial_state

\* a chain store: the fields of a Blockchain object
Blockchain ==
    [chain |-> <<genesis_block>>,
     blocks_by_hash |-> {genesis_block},
     wallet |-> set_state(initial_state),
     reorg_removed |-> <<>>]

head(bc) == Last(bc.chain)

\* blocks_by_hash is a dict keyed by hash: a set of blocks, one per hash
HasHash(bbh, h) == \E b \in bbh : b.hash = h

Lookup(bbh, h) == CHOOSE b \in bbh : b.hash = h

Store(bbh, b) == {x \in bbh : x.hash # b.hash} \cup {b}

\* one transaction of _apply_block_to_wallet's loop: [ok, wallet]
ApplyTx(w, tx, validate_only) ==
    LET wb == _ensure_account(w, tx.sender)
    IN IF tx.amount <= 0 THEN [ok |-> FALSE, wallet |-> w]
       ELSE IF tx.type \in {TRANSFER, STAKE} /\ get_balance(wb, tx.sender) < tx.amount
            THEN [ok |-> FALSE, wallet |-> wb]
       ELSE IF tx.type = UNSTAKE /\ get_stake(wb, tx.sender) < tx.amount
            THEN [ok |-> FALSE, wallet |-> wb]
       ELSE IF validate_only THEN [ok |-> TRUE, wallet |-> wb]
       ELSE IF tx.type = TRANSFER
            THEN [ok |-> TRUE,
                  wallet |-> deposit(withdraw(wb, tx.sender, tx.amount).wallet,
                                     tx.receiver, tx.amount)]
       ELSE IF tx.type = STAKE THEN stake_tokens(wb, tx.sender, tx.amount)
       ELSE unstake_tokens(wb, tx.sender, tx.amount)

\* the loop goes on to tx unless a transaction before it has failed
ApplyNextTx(r, tx, validate_only) ==
    IF ~r.ok THEN r ELSE ApplyTx(r.wallet, tx, validate_only)

RECURSIVE ApplyTxs(_, _, _)
ApplyTxs(w, txs, validate_only) ==
    IF txs = <<>> THEN [ok |-> TRUE, wallet |-> w]
    ELSE ApplyNextTx(ApplyTxs(w, Front(txs), validate_only), Last(txs),
                     validate_only)

_apply_block_to_wallet(w, block, validate_only) ==
    ApplyTxs(w, block.transactions, validate_only)

\* a loop "for b in blocks: if not _apply_block_to_wallet(...): fail"
ApplyNextBlock(r, block, validate_only) ==
    IF ~r.ok THEN r ELSE _apply_block_to_wallet(r.wallet, block, validate_only)

RECURSIVE ApplyBlocks(_, _, _)
ApplyBlocks(w, blocks, validate_only) ==
    IF blocks = <<>> THEN [ok |-> TRUE, wallet |-> w]
    ELSE ApplyNextBlock(ApplyBlocks(w, Front(blocks), validate_only), Last(blocks),
                        validate_only)

\* validate_block's walk from parent down to index 0, reversed:
\* [ok, blocks]; ok is FALSE when a prev_hash is no key of blocks_by_hash
\* (the KeyError of self.blocks_by_hash[cur.prev_hash])
RECURSIVE BranchBlocks(_, _)
BranchBlocks(bbh, cur) ==
    IF cur.index = 0 THEN [ok |-> TRUE, blocks |-> <<>>]
    ELSE IF ~HasHash(bbh, cur.prev_hash) THEN [ok |-> FALSE, blocks |-> <<>>]
    ELSE LET r == BranchBlocks(bbh, Lookup(bbh, cur.prev_hash))
         IN [ok |-> r.ok, blocks |-> Append(r.blocks, cur)]

\* validate_block's verdict on block, r being the outcome of bringing the
\* temporary wallet to the parent's state: [raised, valid]
ValidateAt(r, block) ==
    IF ~r.ok THEN [raised |-> FALSE, valid |-> FALSE]
    ELSE [raised |-> FALSE,
          valid |-> _apply_block_to_wallet(r.wallet, block, TRUE).ok]

\* validate_block when the parent is not the head, branch being the walk
\* from the parent down to index 0
ValidateOnBranch(branch, block) ==
    IF ~branch.ok THEN [raised |-> TRUE, valid |-> FALSE]
    ELSE ValidateAt(ApplyBlocks(set_state(genesis_state), branch.blocks, TRUE),
                    block)

\* validate_block once the parent is found
ValidateOnParent(bc, parent, block) ==
    IF block.index # parent.index + 1
    THEN [raised |-> FALSE, valid |-> FALSE]
    ELSE IF BlockHash(block) # block.hash
    THEN [raised |-> FALSE, valid |-> FALSE]
    ELSE IF parent.hash = head(bc).hash
    THEN ValidateAt([ok |-> TRUE, wallet |-> bc.wallet], block)
    ELSE ValidateOnBranch(BranchBlocks(bc.blocks_by_hash, parent), block)

\* validate_block: [raised, valid]
ValidateBlock(bc, block) ==
    IF block.index = 0
    THEN [raised |-> FALSE, valid |-> block.hash = bc.chain[1].hash]
    ELSE IF ~HasHash(bc.blocks_by_hash, block.prev_hash)
    THEN [raised |-> FALSE, valid |-> FALSE]
    ELSE ValidateOnParent(bc, Lookup(bc.blocks_by_hash, block.prev_hash), block)

validate_block(bc, block) == ValidateBlock(bc, block).valid

\* the outcome of a call on the chain store that changed nothing
Unchanged(bc, raised) ==
    [bc |-> bc, raised |-> raised, reorg |-> FALSE, removed |-> <<>>,
     replay_failed |-> FALSE]

\* _apply_reorg once new_chain has been replayed with outcome r
SwapChain(bc, new_chain, removed_blocks, r) ==
    IF ~r.ok THEN [Unchanged(bc, TRUE) EXCEPT !.replay_failed = TRUE]
    ELSE [bc |-> [chain |-> new_chain,
                  blocks_by_hash |-> Range(new_chain),
                  wallet |-> r.wallet,
                  reorg_removed |-> removed_blocks],
          raised |-> FALSE, reorg |-> TRUE, removed |-> removed_blocks,
          replay_failed |-> FALSE]

\* _apply_reorg: [bc, raised, reorg, removed, replay_failed]; reorg says the
\* listeners ran, replay_failed that the new chain failed its replay
_apply_reorg(bc, new_chain, common_ancestor) ==
    SwapChain(bc, new_chain, From(bc.chain, common_ancestor.index + 1),
              ApplyBlocks(set_state(genesis_state), From(new_chain, 1), FALSE))

\* _reorganize_chain's walk from new_head down to the main chain:
\* [branch, cur]; cur is the block of the main chain reached, if found
RECURSIVE NewBranch(_, _, _)
NewBranch(bbh, main_chain_hashes, cur) ==
    IF cur.hash \in main_chain_hashes
    THEN [branch |-> <<>>, found |-> TRUE, cur |-> cur]
    ELSE IF ~HasHash(bbh, cur.prev_hash)
    THEN [branch |-> <<cur>>, found |-> FALSE, cur |-> cur]
    ELSE LET r == NewBranch(bbh, main_chain_hashes, Lookup(bbh, cur.prev_hash))
         IN [branch |-> Append(r.branch, cur), found |-> r.found, cur |-> r.cur]

\* _reorganize_chain once the walk w has ended
ReorganizeOnto(bc, w, common_ancestor) ==
    _apply_reorg(bc, Upto(bc.chain, common_ancestor.index + 1) \o w.branch,
                 common_ancestor)

ReorganizeAlong(bc, w) ==
    ReorganizeOnto(bc, w, IF w.found THEN w.cur ELSE bc.chain[1])

_reorganize_chain(bc, new_head) ==
    ReorganizeAlong(bc, NewBranch(bc.blocks_by_hash,
                                  {b.hash : b \in Range(bc.chain)}, new_head))

\* add_block once validate_block has given v; bc1 is bc with block stored
AddValidated(bc, bc1, block, v) ==
    IF v.raised \/ ~v.valid THEN Unchanged(bc, TRUE)
    ELSE IF block.prev_hash = head(bc).hash
    THEN [bc |-> [bc1 EXCEPT
                    !.wallet = _apply_block_to_wallet(@, block, FALSE).wallet,
                    !.chain = Append(@, block)],
          raised |-> FALSE, reorg |-> FALSE, removed |-> <<>>,
          replay_failed |-> FALSE]
    ELSE IF block.index > head(bc).index THEN _reorganize_chain(bc1, block)
    ELSE Unchanged(bc1, FALSE)

\* add_block: [bc, raised, reorg, removed, replay_failed]
add_block(bc, block) ==
    AddValidated(bc, [bc EXCEPT !.blocks_by_hash = Store(@, block)], block,
                 ValidateBlock(bc, block))

\* reorganize_to_chain: [bc, raised, reorg, removed, replay_failed]
reorganize_to_chain(bc, new_chain) ==
    LET new_hashes == {b.hash : b \in Range(new_chain)}
        common == {i \in DOMAIN bc.chain : bc.chain[i].hash \in new_hashes}
    IN IF new_chain = <<>> THEN Unchanged(bc, FALSE)
       ELSE IF common = {} THEN Unchanged(bc, FALSE)
       ELSE _apply_reorg(bc, new_chain,
                         bc.chain[CHOOSE i \in common : \A j \in common : j <= i])

\* random.choices(candidates, weights, k=1)[0] for the draw u, the integer
\* part of random() * sum(weights): the first candidate whose cumulative
\* weight exceeds u
RECURSIVE SumTo(_, _)
SumTo(weights, k) == IF k = 0 THEN 0 ELSE SumTo(weights, k - 1) + weights[k]

Choices(candidates, weights, u) ==
    candidates[CHOOSE i \in DOMAIN candidates :
                   /\ SumTo(weights, i) > u
                   /\ \A j \in 1..(i - 1) : SumTo(weights, j) <= u]

\* the candidate entries were the accounts not looked up in known_validators
Unlisted(w, known_validators) ==
    LET InStake(e) == e.stake > 0
        InBalance(e) == e.balance > 0
        staked == SelectSeq(w, InStake)
    IN IF staked # <<>>
       THEN [i \in DOMAIN staked |-> [id |-> staked[i].id, weight |-> staked[i].stake]]
       ELSE LET funded == SelectSeq(w, InBalance)
            IN [i \in DOMAIN funded |->
                   [id |-> funded[i].id, weight |-> funded[i].balance]]

\* select_validator's candidate entries: the stake pass, else the balance pass
Candidates(w, known_validators) ==
    LET InStake(e) == e.id \in known_validators /\ e.stake > 0
        InBalance(e) == e.id \in known_validators /\ e.balance > 0
        staked == SelectSeq(w, InStake)
    IN IF staked # <<>>
       THEN [i \in DOMAIN staked |-> [id |-> staked[i].id, weight |-> staked[i].stake]]
       ELSE LET funded == SelectSeq(w, InBalance)
            IN [i \in DOMAIN funded |->
                   [id |-> funded[i].id, weight |-> funded[i].balance]]

None == "None"

\* select_validator, given the draw u that the seed sha256(head.hash) yields
select_validator(w, known_validators, u) ==
    LET c == Candidates(w, known_validators)
        weights == [i \in DOMAIN c |-> c[i].weight]
        total == SumTo(weights, Len(weights))
    IN IF c = <<>> THEN None
       ELSE Choices([i \in DOMAIN c |-> c[i].id], weights, u % total)

(***************************************************************************)
(* node.py                                                                 *)
(***************************************************************************)
\* the chain store of node n
BC(n) ==
    [chain |-> chain[n], blocks_by_hash |-> blocks_by_hash[n],
     wallet |-> wallet[n], reorg_removed |-> reorg_removed[n]]

SetBC(n, bc) ==
    /\ chain' = [chain EXCEPT ![n] = bc.chain]
    /\ blocks_by_hash' = [blocks_by_hash EXCEPT ![n] = bc.blocks_by_hash]
    /\ wallet' = [wallet EXCEPT ![n] = bc.wallet]
    /\ reorg_removed' = [reorg_removed EXCEPT ![n] = bc.reorg_removed]

Hello(n) == [type |-> "HELLO", sender_id |-> n]

SyncRequest(n) == [type |-> "SYNC_REQUEST", sender_id |-> n]

\* the relay's fan-out of a frame from n: every other node is either in the
\* drop set (or its queue is full) and misses it, or has it queued
Broadcast(n, msg) ==
    \E rcpt \in SUBSET {m \in Nodes \ {n} : Len(inbox[m]) < MaxInbox} :
        inbox' = [m \in Nodes |->
                     IF m \in rcpt THEN Append(inbox[m], msg) ELSE inbox[m]]

\* the same, for a handler that first takes the frame at the head of its queue
Reply(n, msg) ==
    \E rcpt \in SUBSET {m \in Nodes \ {n} : Len(inbox[m]) < MaxInbox} :
        inbox' = [m \in Nodes |->
                     IF m = n THEN Tail(inbox[n])
                     ELSE IF m \in rcpt THEN Append(inbox[m], msg) ELSE inbox[m]]

Take(n) == inbox' = [inbox EXCEPT ![n] = Tail(@)]

\* the thread of wait_loop is between two handlers
Resting == [at |-> "idle", block_hash |-> ZeroHash, voter_id |-> "None"]

\* wait_loop has left its loop on the exception of a handler
Stopped == [at |-> "stopped", block_hash |-> ZeroHash, voter_id |-> "None"]

Idle(n) == dispatcher[n].at = "idle"

\* d[k] = v and del d[k] on a dict d
Put(d, k, v) == [x \in DOMAIN d \cup {k} |-> IF x = k THEN v ELSE d[x]]

Del(d, k) == IF DOMAIN d \ {k} = {} THEN <<>> ELSE [x \in DOMAIN d \ {k} |-> d[x]]

\* the BLOCK_VOTE frame of _vote
BlockVote(sender_id, voter_id, block_hash) ==
    [type |-> "BLOCK_VOTE", sender_id |-> sender_id, voter_id |-> voter_id,
     block_hash |-> block_hash]

\* the relay's fan-out of two frames that n sends one after the other
Broadcast2(n, msg1, msg2) ==
    \E rcpt1 \in SUBSET {m \in Nodes \ {n} : Len(inbox[m]) < MaxInbox} :
        \E rcpt2 \in SUBSET {m \in Nodes \ {n} :
                                Len(inbox[m]) + (IF m \in rcpt1 THEN 1 ELSE 0)
                                    < MaxInbox} :
            inbox' = [m \in Nodes |->
                         (IF m \in rcpt1 THEN Append(inbox[m], msg1) ELSE inbox[m])
                             \o (IF m \in rcpt2 THEN <<msg2>> ELSE <<>>)]

\* what a call r on the chain store of node n did
Outcome(n, r) ==
    [node |-> IF r.raised \/ r.reorg THEN n ELSE None,
     raised |-> r.raised, reorg |-> r.reorg, replay_failed |-> r.replay_failed]

Quiet == Outcome(None, Unchanged(Blockchain, FALSE))

\* _validate_transaction
_validate_transaction(w, tx) ==
    IF tx.type \in {TRANSFER, STAKE} THEN ~(get_balance(w, tx.sender) < tx.amount)
    ELSE IF tx.type = UNSTAKE THEN ~(get_stake(w, tx.sender) < tx.amount)
    ELSE TRUE

\* _pack_transactions
_pack_transactions(w, pool) ==
    LET Valid(tx) == _validate_transaction(w, tx)
    IN SelectSeq(pool, Valid)

\* _on_reorg: the mempool after the listener ran on the new chain
RECURSIVE Recover(_, _, _)
Recover(pool, txs, confirmed_tx_ids) ==
    IF txs = <<>> THEN pool
    ELSE Recover(IF tx_id(Head(txs)) \notin confirmed_tx_ids
                 THEN Append(pool, Head(txs)) ELSE pool,
                 Tail(txs), confirmed_tx_ids)

RECURSIVE BlocksTxs(_)
BlocksTxs(blocks) ==
    IF blocks = <<>> THEN <<>>
    ELSE Head(blocks).transactions \o BlocksTxs(Tail(blocks))

\* _on_reorg with the recovery left out
NoRecovery(pool, new_chain, removed_blocks) == pool

_on_reorg(pool, new_chain, removed_blocks) ==
    LET confirmed_tx_ids == {tx_id(tx) : tx \in Range(BlocksTxs(new_chain))}
    IN Recover(pool, BlocksTxs(removed_blocks), confirmed_tx_ids)

\* _add_block's loop "if tx in self.mempool: self.mempool.remove(tx)"
RECURSIVE RemoveAll(_, _)
RemoveAll(pool, txs) ==
    IF txs = <<>> THEN pool
    ELSE RemoveAll(ListRemove(pool, Head(txs)), Tail(txs))

\* the node after a call on its chain store ended with outcome r: the store,
\* the mempool once the reorg listener has run and, unless the call raised,
\* txs have been removed from it
AfterCall(n, r, txs) ==
    /\ SetBC(n, r.bc)
    /\ mempool' = [mempool EXCEPT ![n] =
                      RemoveAll(IF r.reorg THEN _on_reorg(@, r.bc.chain, r.removed)
                                ELSE @,
                                IF r.raised THEN <<>> ELSE txs)]
    /\ last' = Outcome(n, r)

\* _add_block on the chain store bc of node n
_add_block(n, bc, block) == AfterCall(n, add_block(bc, block), block.transactions)

\* create_transaction, from the commands tx, stake and unstake (stake and
\* unstake name the node itself as receiver).  _validate_transaction reads
\* the sender's balance, which creates its account.  A command that returns
\* before it changes anything is no step.
create_transaction(n, receiver, amount, tx_type) ==
    LET tx == Transaction(n, receiver, amount, clock[n], tx_type)
        w == _ensure_account(wallet[n], n)
    IN /\ Idle(n)
       /\ ~(n = receiver /\ tx_type = TRANSFER)
       /\ tx_type # TRANSFER => receiver = n
       /\ _validate_transaction(w, tx)
       /\ wallet' = [wallet EXCEPT ![n] = w]
       /\ mempool' = [mempool EXCEPT ![n] = Append(@, tx)]
       /\ Broadcast(n, [type |-> "TRANSACTION", sender_id |-> n, tx |-> tx])
       /\ clock' = [clock EXCEPT ![n] = @ + 1]
       /\ last' = Quiet
       /\ UNCHANGED <<config, connection, attack_detector, data_dir, timer, server, manager, dispatcher, voting, chain, blocks_by_hash, reorg_removed, known_nodes,
                      sync_in_progress, sync_responses, sync_timers>>

\* the draws random.choices can make of the seeded generator
Draws == 0..(MaxAmount * Cardinality(Nodes))

\* the wallet once the balance of every sender of txs has been read
RECURSIVE EnsureSenders(_, _)
EnsureSenders(w, txs) ==
    IF txs = <<>> THEN w
    ELSE EnsureSenders(_ensure_account(w, Head(txs).sender), Tail(txs))

\* _stash_block, w being the wallet once stake(self.id) has been read
_stash_block(n, block, w) ==
    LET votes == IF block.hash \in DOMAIN pending_blocks[n]
                      /\ block.hash \in DOMAIN pending_block_votes[n]
                 THEN pending_block_votes[n][block.hash] ELSE {}
    IN /\ pending_blocks' = [pending_blocks EXCEPT ![n] = Put(@, block.hash, block)]
       /\ pending_block_votes' =
              [pending_block_votes EXCEPT ![n] =
                  Put(@, block.hash,
                      votes \cup (IF get_stake(w, n) > 0 THEN {n} ELSE {}))]

\* the voting branch of forge_block and of _on_block once block, which
\* the node has just forged (forged) or has received, has been validated
\* with verdict v: _vote, _stash_block, and the start of the vote Timer
StartVote(n, block, v, w, forged) ==
    /\ last' = Quiet
    /\ UNCHANGED <<chain, blocks_by_hash, reorg_removed, mempool>>
    /\ IF v.raised \/ ~v.valid
       THEN /\ IF forged THEN Broadcast(n, [type |-> "BLOCK", sender_id |-> n, block |-> block]) ELSE Take(n)
            /\ dispatcher' = [dispatcher EXCEPT ![n] =
                                 IF v.raised /\ ~forged THEN Stopped ELSE @]
            /\ wallet' = [wallet EXCEPT ![n] = w]
            /\ UNCHANGED voting
       ELSE /\ IF forged
               THEN Broadcast2(n, [type |-> "BLOCK", sender_id |-> n, block |-> block], BlockVote(n, n, block.hash))
               ELSE Reply(n, BlockVote(n, n, block.hash))
            /\ wallet' = [wallet EXCEPT ![n] = _ensure_account(w, n)]
            /\ _stash_block(n, block, _ensure_account(w, n))
            /\ vote_timers' = [vote_timers EXCEPT ![n] = @ \cup {block.hash}]
            /\ UNCHANGED dispatcher

\* forge_block, on STEP or the forge command (force: forge --force), when
\* the node is elected or forced and has transactions to pack
forge_block(n) ==
    LET w == EnsureSenders(wallet[n], mempool[n])
        packaged_txs == _pack_transactions(w, mempool[n])
        prev == Last(chain[n])
        block == Block(prev.index + 1, prev.hash, packaged_txs, n, clock[n])
    IN /\ Idle(n)
       /\ \E force \in BOOLEAN :
              force \/ \E u \in Draws :
                           select_validator(wallet[n], known_nodes[n], u) = n
       /\ packaged_txs # <<>>
       /\ IF config.vote.enabled
          THEN StartVote(n, block, ValidateBlock([BC(n) EXCEPT !.wallet = w], block),
                         w, TRUE)
          ELSE /\ Broadcast(n, [type |-> "BLOCK", sender_id |-> n, block |-> block])
               /\ _add_block(n, [BC(n) EXCEPT !.wallet = w], block)
               /\ UNCHANGED <<dispatcher, voting>>
       /\ clock' = [clock EXCEPT ![n] = @ + 1]
       /\ UNCHANGED <<config, connection, attack_detector, data_dir, timer, server, manager, known_nodes, sync_in_progress, sync_responses, sync_timers>>

\* _on_step, for a STEP frame: forge_block() up to the test of the elected
\* validator.  The callback of the sync Timer runs on its own thread and
\* nothing locks the chain store, so that the callback can run between the
\* election and the rest of forge_block.
_on_step(n) ==
    /\ Idle(n)
    /\ inbox[n] # <<>>
    /\ Head(inbox[n]).type = "STEP"
    /\ \E u \in Draws :
           dispatcher' =
               [dispatcher EXCEPT ![n] =
                   IF select_validator(wallet[n], known_nodes[n], u) = n
                   THEN [Resting EXCEPT !.at = "elected"] ELSE @]
    /\ Take(n)
    /\ last' = Quiet
    /\ UNCHANGED <<config, connection, attack_detector, data_dir, timer, server, manager, voting, chain, blocks_by_hash, wallet, reorg_removed, mempool,
                   known_nodes, sync_in_progress, sync_responses, sync_timers, clock>>

\* forge_block of an elected node from _pack_transactions to client.send
Pack(n) ==
    LET w == EnsureSenders(wallet[n], mempool[n])
        packaged_txs == _pack_transactions(w, mempool[n])
        prev == Last(chain[n])
        block == Block(prev.index + 1, prev.hash, packaged_txs, n, clock[n])
    IN /\ dispatcher[n].at = "elected"
       /\ wallet' = [wallet EXCEPT ![n] = w]
       /\ IF packaged_txs = <<>>
          THEN /\ dispatcher' = [dispatcher EXCEPT ![n] = Resting]
               /\ UNCHANGED <<inbox, clock>>
          ELSE /\ Broadcast(n, [type |-> "BLOCK", sender_id |-> n, block |-> block])
               /\ dispatcher' = [dispatcher EXCEPT ![n] = [at |-> "sent", block |-> block]]
               /\ clock' = [clock EXCEPT ![n] = @ + 1]
       /\ last' = Quiet
       /\ UNCHANGED <<config, connection, attack_detector, data_dir, timer, server, manager, voting, chain, blocks_by_hash, reorg_removed, mempool,
                      known_nodes, sync_in_progress, sync_responses, sync_timers>>

\* forge_block after client.send: the voting branch or _add_block; what
\* validate_block raises ends wait_loop
Forged(n) ==
    LET block == dispatcher[n].block
        v == ValidateBlock(BC(n), block)
        w == _ensure_account(wallet[n], n)
    IN /\ dispatcher[n].at = "sent"
       /\ IF ~config.vote.enabled
          THEN /\ _add_block(n, BC(n), block)
               /\ dispatcher' = [dispatcher EXCEPT ![n] = Resting]
               /\ UNCHANGED <<voting, inbox>>
          ELSE IF v.raised \/ ~v.valid
          THEN /\ dispatcher' = [dispatcher EXCEPT ![n] =
                                    IF v.raised THEN Stopped ELSE Resting]
               /\ last' = Quiet
               /\ UNCHANGED <<voting, inbox, chain, blocks_by_hash, wallet,
                              reorg_removed, mempool>>
          ELSE /\ Broadcast(n, BlockVote(n, n, block.hash))
               /\ wallet' = [wallet EXCEPT ![n] = w]
               /\ _stash_block(n, block, w)
               /\ vote_timers' = [vote_timers EXCEPT ![n] = @ \cup {block.hash}]
               /\ dispatcher' = [dispatcher EXCEPT ![n] = Resting]
               /\ last' = Quiet
               /\ UNCHANGED <<chain, blocks_by_hash, reorg_removed, mempool>>
       /\ UNCHANGED <<config, connection, attack_detector, data_dir, timer, server, manager, known_nodes, sync_in_progress, sync_responses, sync_timers, clock>>

\* _on_hello
_on_hello(n) ==
    /\ Idle(n)
    /\ inbox[n] # <<>>
    /\ Head(inbox[n]).type = "HELLO"
    /\ known_nodes' = [known_nodes EXCEPT ![n] = @ \cup {Head(inbox[n]).sender_id}]
    /\ Take(n)
    /\ last' = Quiet
    /\ UNCHANGED <<config, connection, attack_detector, data_dir, timer, server, manager, dispatcher, voting, chain, blocks_by_hash, wallet, reorg_removed, mempool,
                   sync_in_progress, sync_responses, sync_timers, clock>>

\* _on_bye, for a BYE frame of sender_id: _cmd_exit saves the chain and
\* sys.exit ends wait_loop when the sender is the relay
_on_bye(n, sender_id) ==
    /\ Idle(n)
    /\ IF sender_id = "server"
       THEN /\ data_dir' = [data_dir EXCEPT ![n] = chain[n]]
            /\ dispatcher' = [dispatcher EXCEPT ![n] = [Resting EXCEPT !.at = "exited"]]
            /\ UNCHANGED known_nodes
       ELSE /\ known_nodes' = [known_nodes EXCEPT ![n] = @ \ {sender_id}]
            /\ UNCHANGED <<data_dir, dispatcher>>
    /\ last' = Quiet
    /\ UNCHANGED <<config, connection, attack_detector, timer, server, manager, voting, chain, blocks_by_hash,
                   wallet, reorg_removed, mempool, sync_in_progress,
                   sync_responses, sync_timers, inbox, clock>>

\* _on_transaction: reading the sender's balance creates its account
_on_transaction(n) ==
    /\ Idle(n)
    /\ inbox[n] # <<>>
    /\ Head(inbox[n]).type = "TRANSACTION"
    /\ LET tx == Head(inbox[n]).tx
           w == _ensure_account(wallet[n], tx.sender)
           accepted ==
               /\ tx.sender # n
               /\ tx.amount > 0
               /\ tx.type \in {TRANSFER, STAKE} => ~(get_balance(w, tx.sender) < tx.amount)
               /\ tx.type = UNSTAKE => ~(get_stake(w, tx.sender) < tx.amount)
               /\ tx.type \in TxTypes
               /\ ~TxIn(tx, mempool[n])
       IN /\ wallet' = [wallet EXCEPT ![n] = IF tx.sender = n THEN @ ELSE w]
          /\ mempool' = [mempool EXCEPT ![n] = IF accepted THEN Append(@, tx) ELSE @]
    /\ Take(n)
    /\ last' = Quiet
    /\ UNCHANGED <<config, connection, attack_detector, data_dir, timer, server, manager, dispatcher, voting, chain, blocks_by_hash, reorg_removed, known_nodes,
                   sync_in_progress, sync_responses, sync_timers, clock>>

\* _on_block
_on_block(n) ==
    /\ Idle(n)
    /\ inbox[n] # <<>>
    /\ Head(inbox[n]).type = "BLOCK"
    /\ LET block == Head(inbox[n]).block
       IN IF HasHash(blocks_by_hash[n], block.hash)
          THEN /\ last' = Quiet
               /\ Take(n)
               /\ UNCHANGED <<dispatcher, voting, chain, blocks_by_hash, wallet,
                              reorg_removed, mempool>>
          ELSE IF config.vote.enabled
          THEN StartVote(n, block, ValidateBlock(BC(n), block), wallet[n], FALSE)
          ELSE /\ _add_block(n, BC(n), block)
               /\ Take(n)
               /\ UNCHANGED <<dispatcher, voting>>
    /\ UNCHANGED <<config, connection, attack_detector, data_dir, timer, server, manager, known_nodes, sync_in_progress, sync_responses, sync_timers, clock>>

\* the wallet once the stake of every node of ids has been read, in the
\* order the set yields them
RECURSIVE EnsureAll(_, _)
EnsureAll(w, ids) ==
    IF ids = {} THEN w
    ELSE LET id == CHOOSE x \in ids : TRUE
         IN EnsureAll(_ensure_account(w, id), ids \ {id})

\* get_online_validator_count of _on_block_vote
get_online_validator_count(w, node_ids) ==
    LET cnt == Cardinality({v \in node_ids : get_stake(w, v) > 0})
    IN IF cnt > 1 THEN cnt ELSE 1
\* a vote_ratio test that any vote passes
AnyRatio(votes, w, node_ids) == TRUE

\* vote_ratio >= self.vote_threshold, for a vote set and the known nodes;
\* the configured threshold is in hundredths
Ratified(votes, w, node_ids) ==
    Cardinality(votes) * 100
        >= config.vote.threshold * get_online_validator_count(w, node_ids)

\* _on_block_vote up to the test of the sender's stake: the thread of
\* wait_loop runs the handler while the threads of threading.Timer run the
\* callbacks, and nothing locks the pending table, so that the handler is
\* modelled in three steps between which a callback can run
_on_block_vote(n) ==
    /\ Idle(n)
    /\ inbox[n] # <<>>
    /\ Head(inbox[n]).type = "BLOCK_VOTE"
    /\ LET msg == Head(inbox[n])
           w == _ensure_account(wallet[n], msg.sender_id)
       IN IF msg.block_hash \notin DOMAIN pending_blocks[n]
          THEN UNCHANGED <<wallet, dispatcher>>
          ELSE /\ wallet' = [wallet EXCEPT ![n] = w]
               /\ dispatcher' =
                      [dispatcher EXCEPT ![n] =
                          IF get_stake(w, msg.sender_id) <= 0 THEN @
                          ELSE [at |-> "recording", block_hash |-> msg.block_hash,
                                voter_id |-> msg.voter_id]]
    /\ Take(n)
    /\ last' = Quiet
    /\ UNCHANGED <<config, connection, attack_detector, data_dir, timer, server, manager, voting, chain, blocks_by_hash, reorg_removed, mempool,
                   known_nodes, sync_in_progress, sync_responses, sync_timers, clock>>

\* _on_block_vote from the insertion of the voter to the call of _add_block
RecordVote(n) ==
    LET block_hash == dispatcher[n].block_hash
        w == EnsureAll(wallet[n], known_nodes[n])
    IN /\ dispatcher[n].at = "recording"
       /\ IF block_hash \notin DOMAIN pending_block_votes[n]
          THEN /\ dispatcher' = [dispatcher EXCEPT ![n] = Stopped]
               /\ UNCHANGED <<pending_block_votes, chain, blocks_by_hash, wallet,
                              reorg_removed, mempool, last>>
          ELSE /\ pending_block_votes' =
                      [pending_block_votes EXCEPT ![n] =
                          Put(@, block_hash, @[block_hash] \cup {dispatcher[n].voter_id})]
               /\ IF /\ Ratified(pending_block_votes[n][block_hash]
                                      \cup {dispatcher[n].voter_id}, w, known_nodes[n])
                     /\ block_hash \in DOMAIN pending_blocks[n]
                  THEN /\ _add_block(n, [BC(n) EXCEPT !.wallet = w],
                                     pending_blocks[n][block_hash])
                       /\ dispatcher' = [dispatcher EXCEPT ![n].at = "clearing"]
                  ELSE /\ wallet' = [wallet EXCEPT ![n] = w]
                       /\ dispatcher' = [dispatcher EXCEPT ![n] = Resting]
                       /\ UNCHANGED <<chain, blocks_by_hash, reorg_removed, mempool,
                                      last>>
       /\ UNCHANGED <<config, connection, attack_detector, data_dir, timer, server, manager, pending_blocks, vote_timers, known_nodes,
                      sync_in_progress, sync_responses, sync_timers, inbox, clock>>

\* _on_block_vote from the first del to its end
ClearPending(n) ==
    LET block_hash == dispatcher[n].block_hash
    IN /\ dispatcher[n].at = "clearing"
       /\ IF block_hash \notin DOMAIN pending_block_votes[n]
          THEN /\ dispatcher' = [dispatcher EXCEPT ![n] = Stopped]
               /\ UNCHANGED <<pending_blocks, pending_block_votes>>
          ELSE /\ pending_block_votes' =
                      [pending_block_votes EXCEPT ![n] = Del(@, block_hash)]
               /\ IF block_hash \notin DOMAIN pending_blocks[n]
                  THEN /\ dispatcher' = [dispatcher EXCEPT ![n] = Stopped]
                       /\ UNCHANGED pending_blocks
                  ELSE /\ dispatcher' = [dispatcher EXCEPT ![n] = Resting]
                       /\ pending_blocks' =
                              [pending_blocks EXCEPT ![n] = Del(@, block_hash)]
       /\ UNCHANGED <<config, connection, attack_detector, data_dir, timer, server, manager, vote_timers, chain, blocks_by_hash, wallet,
                      reorg_removed, mempool, known_nodes, sync_in_progress,
                      sync_responses, sync_timers, inbox, clock, last>>

\* a timeout that deletes the pending block and keeps its vote set
KeepVotes(n, block_hash) ==
    /\ block_hash \in vote_timers[n]
    /\ vote_timers' = [vote_timers EXCEPT ![n] = @ \ {block_hash}]
    /\ pending_blocks' = [pending_blocks EXCEPT ![n] = Del(@, block_hash)]
    /\ UNCHANGED <<config, connection, attack_detector, data_dir, timer, server, manager, dispatcher, pending_block_votes, chain, blocks_by_hash,
                   wallet, reorg_removed, mempool, known_nodes, sync_in_progress,
                   sync_responses, sync_timers, inbox, clock, last>>

\* _check_vote_timeout, when the vote Timer of block_hash fires
_check_vote_timeout(n, block_hash) ==
    /\ block_hash \in vote_timers[n]
    /\ vote_timers' = [vote_timers EXCEPT ![n] = @ \ {block_hash}]
    /\ IF block_hash \in DOMAIN pending_blocks[n]
       THEN /\ pending_blocks' = [pending_blocks EXCEPT ![n] = Del(@, block_hash)]
            /\ pending_block_votes' =
                   [pending_block_votes EXCEPT ![n] =
                       IF block_hash \in DOMAIN @ THEN Del(@, block_hash) ELSE @]
       ELSE UNCHANGED <<pending_blocks, pending_block_votes>>
    /\ UNCHANGED <<config, connection, attack_detector, data_dir, timer, server, manager, dispatcher, chain, blocks_by_hash, wallet, reorg_removed,
                   mempool, known_nodes, sync_in_progress, sync_responses,
                   sync_timers, inbox, clock, last>>

\* request_sync, for the command sync: a node starts a sync while at most
\* MaxSyncTimers - 1 of its sync Timers are pending
MaxSyncTimers == 1

request_sync(n) ==
    /\ Idle(n)
    /\ sync_timers[n] < MaxSyncTimers
    /\ sync_responses' = [sync_responses EXCEPT ![n] = <<>>]
    /\ sync_in_progress' = [sync_in_progress EXCEPT ![n] = TRUE]
    /\ Broadcast(n, SyncRequest(n))
    /\ sync_timers' = [sync_timers EXCEPT ![n] = @ + 1]
    /\ last' = Quiet
    /\ UNCHANGED <<config, connection, attack_detector, data_dir, timer, server, manager, dispatcher, voting, chain, blocks_by_hash, wallet, reorg_removed, mempool,
                   known_nodes, clock>>

\* _on_sync_request
_on_sync_request(n) ==
    /\ Idle(n)
    /\ inbox[n] # <<>>
    /\ Head(inbox[n]).type = "SYNC_REQUEST"
    /\ Reply(n, [type |-> "SYNC_RESPONSE", sender_id |-> n, blocks |-> chain[n]])
    /\ last' = Quiet
    /\ UNCHANGED <<config, connection, attack_detector, data_dir, timer, server, manager, dispatcher, voting, chain, blocks_by_hash, wallet, reorg_removed, mempool, known_nodes,
                   sync_in_progress, sync_responses, sync_timers, clock>>

\* _on_sync_response
_on_sync_response(n) ==
    /\ Idle(n)
    /\ inbox[n] # <<>>
    /\ Head(inbox[n]).type = "SYNC_RESPONSE"
    /\ known_nodes' = [known_nodes EXCEPT ![n] = @ \cup {Head(inbox[n]).sender_id}]
    /\ sync_responses' =
           [sync_responses EXCEPT ![n] =
               IF sync_in_progress[n]
               THEN Append(@, [sender_id |-> Head(inbox[n]).sender_id,
                               blocks |-> Head(inbox[n]).blocks])
               ELSE @]
    /\ Take(n)
    /\ last' = Quiet
    /\ UNCHANGED <<config, connection, attack_detector, data_dir, timer, server, manager, dispatcher, voting, chain, blocks_by_hash, wallet, reorg_removed, mempool,
                   sync_in_progress, sync_timers, clock>>

\* _select_longest_chain: the first response among the longest
_select_longest_chain(responses) ==
    responses[CHOOSE i \in DOMAIN responses :
                  /\ \A j \in DOMAIN responses :
                         Len(responses[j].blocks) <= Len(responses[i].blocks)
                  /\ \A j \in 1..(i - 1) :
                         Len(responses[j].blocks) < Len(responses[i].blocks)].blocks

HashSeq(blocks) == [i \in DOMAIN blocks |-> blocks[i].hash]

\* what _process_sync_responses does to the chain store
ProcessSync(bc, responses) ==
    IF responses = <<>> THEN Unchanged(bc, FALSE)
    ELSE LET best_chain == _select_longest_chain(responses)
         IN IF HashSeq(bc.chain) = HashSeq(best_chain) THEN Unchanged(bc, FALSE)
            ELSE reorganize_to_chain(bc, best_chain)

\* _process_sync_responses, when a sync Timer fires; Timer._run catches what
\* the callback raises
_process_sync_responses(n) ==
    /\ sync_timers[n] > 0
    /\ sync_timers' = [sync_timers EXCEPT ![n] = @ - 1]
    /\ sync_in_progress' = [sync_in_progress EXCEPT ![n] = FALSE]
    /\ AfterCall(n, ProcessSync(BC(n), sync_responses[n]), <<>>)
    /\ UNCHANGED <<config, connection, attack_detector, data_dir, timer, server, manager, dispatcher, voting, known_nodes, sync_responses, inbox, clock>>

(***************************************************************************)
(* Peers that are not among Nodes: their frames reach the nodes through    *)
(* the relay like any other.                                               *)
(***************************************************************************)
Peers == {"n3", "n4"}

Accounts == Nodes \cup Peers

\* the sequences made of some of the elements of s, in their order
RECURSIVE SubSeqs(_)
SubSeqs(s) ==
    IF s = <<>> THEN {<<>>}
    ELSE LET rest == SubSeqs(Tail(s))
         IN rest \cup {<<Head(s)>> \o t : t \in rest}

IsPeerResponse(msg) == msg.type = "SYNC_RESPONSE" /\ msg.sender_id \in Peers

FromPeer(response) == response.sender_id \in Peers

\* the relay writes to n, whose sync is in progress, a SYNC_RESPONSE frame of
\* peer p; its blocks are some of the blocks of a chain of the network
PeerSyncResponse(n, p, blocks) ==
    /\ sync_in_progress[n]
    /\ Len(inbox[n]) < MaxInbox
    /\ Len(SelectSeq(inbox[n], IsPeerResponse))
          + Len(SelectSeq(sync_responses[n], FromPeer)) < MaxPeerResponses
    /\ inbox' = [inbox EXCEPT ![n] =
                    Append(@, [type |-> "SYNC_RESPONSE", sender_id |-> p,
                               blocks |-> blocks])]
    /\ last' = Quiet
    /\ UNCHANGED <<config, connection, attack_detector, data_dir, timer, server, manager, dispatcher, voting, chain, blocks_by_hash, wallet, reorg_removed, mempool, known_nodes,
                   sync_in_progress, sync_responses, sync_timers, clock>>

(***************************************************************************)
(* aserver.py: the relay, with the order in which it reads frames and the  *)
(* order in which it writes them to each client.  Its coroutines run on    *)
(* one event loop: a task runs until it awaits something that is not       *)
(* ready.                                                                  *)
(***************************************************************************)
\* the task that broadcasts the BYE of each client: the one that called
\* _disconnect_client first, whichever it is
ByeTask == [n1 |-> "bye n1", n2 |-> "bye n2", n3 |-> "bye n3"]

\* the relay once its clients have connected and said HELLO, in that order.
\* fanout holds, for the reader task of each client, for the task of the
\* relay's own broadcasts ("server") and for the BYE of each client, the
\* frame last broadcast and the clients that its _broadcast has yet to
\* reach; closed holds the clients whose connection is lost; exit is the
\* place of _graceful_shutdown.  noticed is not a field of the code: for
\* each client, the callers that have called _disconnect_client for it
BlockchainServerAsync ==
    [clients |-> <<"n1", "n2", "n3">>,
     drop_set |-> {},
     delay_map |-> [q \in {"n1", "n2", "n3"} |-> 0],
     received |-> <<>>,
     fanout |-> [p \in {"n1", "n2", "n3", "server"} \cup Range(ByeTask) |->
                    [frame |-> IF p \in DOMAIN ByeTask
                               THEN [type |-> "TRANSACTION", sender_id |-> p, seq |-> 0]
                               ELSE IF p = "server"
                               THEN [type |-> "STEP", sender_id |-> p, seq |-> 0]
                               ELSE [type |-> "BYE",
                                     sender_id |-> CHOOSE q \in DOMAIN ByeTask :
                                                       ByeTask[q] = p,
                                     seq |-> 0],
                     todo |-> <<>>]],
     sleeping |-> {},
     written |-> [q \in {"n1", "n2", "n3"} |-> <<>>],
     time |-> 0,
     closed |-> {},
     noticed |-> [q \in {"n1", "n2", "n3"} |-> {}],
     exit |-> [at |-> "no", peers |-> <<>>, todo |-> <<>>, wait |-> "None"]]

\* a _disconnect_client that does not look at what pop returns
Unguarded(s, q, caller) ==
    LET Other(c) == c # q
        rest == SelectSeq(s.clients, Other)
    IN [s EXCEPT !.clients = rest,
                 !.noticed[q] = @ \cup {caller},
                 !.fanout[ByeTask[q]] =
                     [frame |-> [@.frame EXCEPT !.seq = @ + 1], todo |-> rest]]

\* _disconnect_client of the connection of client q: nothing when pop finds
\* it gone; else q leaves the table and its BYE is to be broadcast to the
\* others
_disconnect_client(s, q, caller) ==
    IF q \notin Range(s.clients) THEN [s EXCEPT !.noticed[q] = @ \cup {caller}]
    ELSE LET Other(c) == c # q
             rest == SelectSeq(s.clients, Other)
         IN [s EXCEPT !.clients = rest,
                      !.noticed[q] = @ \cup {caller},
                      !.fanout[ByeTask[q]] =
                          [frame |-> [@.frame EXCEPT !.seq = @ + 1],
                           todo |-> rest]]

\* a turn of the loop of _broadcast that writes whatever the client is
Undropped(s, q, frame) ==
    [s EXCEPT !.written[q] = Append(@, [frame |-> frame, delay |-> 0])]

\* one turn of the loop of _broadcast for client q: skipped when q is in the
\* drop set, handed to a _send_with_delay task when q has a delay (the task
\* starts its sleep at a reading of the clock later than every earlier one),
\* written at once otherwise; the write to a lost connection raises
\* ConnectionError, on which _send_immediate calls _disconnect_client
Deliver(s, q, frame) ==
    IF q \in s.drop_set THEN s
    ELSE IF s.delay_map[q] > 0
    THEN [s EXCEPT !.sleeping = @ \cup {[to |-> q, frame |-> frame,
                                         delay |-> s.delay_map[q],
                                         when |-> s.time + s.delay_map[q]]},
                   !.time = @ + 1]
    ELSE IF q \in s.closed THEN _disconnect_client(s, q, "send")
    ELSE [s EXCEPT !.written[q] = Append(@, [frame |-> frame, delay |-> 0])]

\* the first k turns of the loop of _broadcast over the clients todo
RECURSIVE FanOut(_, _, _, _)
FanOut(s, frame, todo, k) ==
    IF k = 0 THEN s ELSE Deliver(FanOut(s, frame, todo, k - 1), todo[k], frame)

\* _broadcast of the frame of p over the clients todo, up to the turn k
\* where the drain of _send_immediate suspends it, or up to its end
_broadcast(s, p, frame, todo, k) ==
    [FanOut(s, frame, todo, k) EXCEPT
        !.fanout[p] = [frame |-> frame, todo |-> SubSeq(todo, k + 1, Len(todo))]]

\* the turns of the loop at which _broadcast can be suspended: those that
\* await a drain or a _disconnect_client
Suspensions(s, todo) ==
    {k \in 0..Len(todo) :
        \/ k = Len(todo)
        \/ k > 0 /\ todo[k] \notin s.drop_set /\ s.delay_map[todo[k]] = 0}

\* _handle_client of the connection of client p: the task reads the next
\* frame of p and awaits _handle_message, which broadcasts it to the others;
\* when the connection is lost its read ends the loop and the task calls
\* _disconnect_client
_handle_client(p) ==
    LET frame == [type |-> "TRANSACTION", sender_id |-> p,
                  seq |-> server.fanout[p].frame.seq + 1]
        Other(q) == q # p
        todo == SelectSeq(server.clients, Other)
    IN /\ server.fanout[p].todo = <<>>
       /\ "reader" \notin server.noticed[p]
       /\ IF p \in server.closed
          THEN server' = _disconnect_client(server, p, "reader")
          ELSE /\ Len(server.received) < MaxFrames
               /\ \E k \in Suspensions(server, todo) :
                      server' = _broadcast([server EXCEPT
                                               !.received = Append(@, frame)],
                                           p, frame, todo, k)
       /\ UNCHANGED <<config, connection, attack_detector, data_dir, timer, manager, dispatcher, voting, chain, blocks_by_hash,
                      wallet, reorg_removed, mempool, known_nodes, sync_in_progress,
                      sync_responses, sync_timers, inbox, clock, last>>

\* _send_immediate: the await that suspended the fan-out of task p returns
_send_immediate(p) ==
    /\ server.fanout[p].todo # <<>>
    /\ \E k \in Suspensions(server, server.fanout[p].todo) :
           server' = _broadcast(server, p, server.fanout[p].frame,
                                server.fanout[p].todo, k)
    /\ UNCHANGED <<config, connection, attack_detector, data_dir, timer, manager, dispatcher, voting, chain, blocks_by_hash,
                   wallet, reorg_removed, mempool, known_nodes, sync_in_progress,
                   sync_responses, sync_timers, inbox, clock, last>>

\* a loop that wakes its sleepers in any order
WakeAny(task) == TRUE

\* asyncio.sleep: the loop wakes the sleeper with the earliest deadline
Due(task) == \A other \in server.sleeping : task.when <= other.when

\* _send_with_delay: the sleep of a task ends and it writes its frame
_send_with_delay(task) ==
    /\ task \in server.sleeping
    /\ Due(task)
    /\ LET woken == [server EXCEPT
                         !.sleeping = @ \ {task},
                         !.time = IF @ < task.when THEN task.when ELSE @]
       IN server' = IF task.to \in server.closed
                    THEN _disconnect_client(woken, task.to, "send")
                    ELSE [woken EXCEPT
                             !.written[task.to] =
                                 Append(@, [frame |-> task.frame,
                                            delay |-> task.delay])]
    /\ UNCHANGED <<config, connection, attack_detector, data_dir, timer, manager, dispatcher, voting, chain, blocks_by_hash,
                   wallet, reorg_removed, mempool, known_nodes, sync_in_progress,
                   sync_responses, sync_timers, inbox, clock, last>>

\* _cmd_drop: drop <node_id>
_cmd_drop(node_id) ==
    /\ server.exit.at = "no"
    /\ server' = [server EXCEPT
                     !.drop_set = IF node_id \in @ THEN @ \ {node_id}
                                  ELSE @ \cup {node_id}]
    /\ UNCHANGED <<config, connection, attack_detector, data_dir, timer, manager, dispatcher, voting, chain, blocks_by_hash,
                   wallet, reorg_removed, mempool, known_nodes, sync_in_progress,
                   sync_responses, sync_timers, inbox, clock, last>>

\* _cmd_delay: delay <node_id> <ms>, and delay <node_id> off (ms = 0)
_cmd_delay(node_id, ms) ==
    /\ server.exit.at = "no"
    /\ server.delay_map[node_id] # ms
    /\ server' = [server EXCEPT !.delay_map[node_id] = ms]
    /\ UNCHANGED <<config, connection, attack_detector, data_dir, timer, manager, dispatcher, voting, chain, blocks_by_hash,
                   wallet, reorg_removed, mempool, known_nodes, sync_in_progress,
                   sync_responses, sync_timers, inbox, clock, last>>

\* the connection of client p is lost: the client has exited, or the
\* network has failed
ConnectionLost(p) ==
    /\ p \in Range(server.clients)
    /\ p \notin server.closed
    /\ server' = [server EXCEPT !.closed = @ \cup {p}]
    /\ UNCHANGED <<config, connection, attack_detector, data_dir, timer, manager, dispatcher, voting, chain,
                   blocks_by_hash, wallet, reorg_removed, mempool, known_nodes,
                   sync_in_progress, sync_responses, sync_timers, inbox, clock,
                   last>>

\* _broadcast_step, from _step_loop or from the step command
_broadcast_step ==
    LET frame == [server.fanout["server"].frame EXCEPT !.seq = @ + 1]
    IN /\ server.exit.at = "no"
       /\ server.fanout["server"].todo = <<>>
       /\ frame.seq <= MaxSteps
       /\ \E k \in Suspensions(server, server.clients) :
              server' = _broadcast(server, "server", frame, server.clients, k)
       /\ UNCHANGED <<config, connection, attack_detector, data_dir, timer, manager, dispatcher, voting, chain,
                      blocks_by_hash, wallet, reorg_removed, mempool, known_nodes,
                      sync_in_progress, sync_responses, sync_timers, inbox, clock,
                      last>>

\* a _graceful_shutdown that leaves the drop set and the delays as they are
KeepFaults(s) == s

\* _graceful_shutdown: self.drop_set.clear() and self.delay_map.clear()
ClearFaults(s) == [s EXCEPT !.drop_set = {}, !.delay_map = [q \in DOMAIN @ |-> 0]]

\* the exit command: the task of _graceful_shutdown cancels the step task
\* and the task that reads the commands, clears the drop set and the delays
\* and awaits _notify_shutdown, the broadcast of BYE from "server"
shutdown ==
    LET cleared == [ClearFaults(server) EXCEPT
                       !.exit = [at |-> "notify", peers |-> server.clients,
                                 todo |-> <<>>, wait |-> "None"]]
        bye == [type |-> "BYE", sender_id |-> "server", seq |-> 1]
    IN /\ server.exit.at = "no"
       /\ \E k \in Suspensions(cleared, server.clients) :
              server' = _broadcast(cleared, "server", bye, server.clients, k)
       /\ UNCHANGED <<config, connection, attack_detector, data_dir, timer, manager, dispatcher, voting, chain,
                      blocks_by_hash, wallet, reorg_removed, mempool, known_nodes,
                      sync_in_progress, sync_responses, sync_timers, inbox, clock,
                      last>>

\* _graceful_shutdown once _notify_shutdown has returned: one turn of its
\* loop over list(self.clients.keys()).  The turn closes the writer of the
\* turn before, whose _disconnect_client has returned, and awaits the
\* _disconnect_client of the next
_graceful_shutdown ==
    LET shut == IF server.exit.wait = "None" THEN server
                ELSE [server EXCEPT !.closed = @ \cup {server.exit.wait}]
        todo == IF server.exit.at = "notify" THEN server.clients
                ELSE server.exit.todo
    IN /\ server.exit.at \in {"notify", "closing"}
       /\ server.fanout["server"].todo = <<>>
       /\ IF server.exit.wait = "None" THEN TRUE
          ELSE server.fanout[ByeTask[server.exit.wait]].todo = <<>>
       /\ server' =
              IF todo = <<>>
              THEN [shut EXCEPT !.exit.at = "done", !.exit.todo = <<>>,
                                !.exit.wait = "None"]
              ELSE [_disconnect_client(shut, Head(todo), "exit") EXCEPT
                       !.exit.at = "closing", !.exit.todo = Tail(todo),
                       !.exit.wait = IF Head(todo) \in Range(shut.clients)
                                     THEN Head(todo) ELSE "None"]
       /\ UNCHANGED <<config, connection, attack_detector, data_dir, timer, manager, dispatcher, voting, chain,
                      blocks_by_hash, wallet, reorg_removed, mempool, known_nodes,
                      sync_in_progress, sync_responses, sync_timers, inbox, clock,
                      last>>

(***************************************************************************)
(* Specifications                                                          *)
(***************************************************************************)
\* the commands of node n, while its clock and its chain are within bounds
Commands(n, receivers, ticks) ==
    /\ clock[n] < ticks
    /\ \/ \E receiver \in receivers, amount \in 1..MaxAmount, tx_type \in CommandTypes :
              create_transaction(n, receiver, amount, tx_type)
       \/ /\ Last(chain[n]).index < MaxHeight
          /\ forge_block(n)

\* The state once the last node, Joiner, has been constructed.  The nodes
\* before it started with no peer connected: their first sync ended with no
\* response.  Joiner's sync is under way, its Timer pending, and the relay
\* has written its HELLO and SYNC_REQUEST to the others.
Joiner == "n2"

(***************************************************************************)
(* attack_detect.py.  A transaction is the dict that add_transaction is     *)
(* given, with "" for a string and <<>> for a transaction_id that is absent *)
(* or empty; an id is a tuple, <<"tx", from, to, amount, timestamp>> for    *)
(* the id that add_transaction makes up.  datetime.now() is now, in         *)
(* milliseconds; similarity is in thousandths.  transactions_by_sender is   *)
(* the lists of all the senders in one sequence, each sender's transactions *)
(* in the order of its list; recent_blocks is the sequence of the keys of   *)
(* the dict, each with its list.  node_transactions is written and never    *)
(* read by the detection and is left out.  calls, call and returned are    *)
(* not fields of the code: the number of calls of add_transaction and      *)
(* add_block, the last of them and what it returned; raised is where the   *)
(* relay's handling of its last frame raised an exception.                 *)
(***************************************************************************)
\* the wire types of message_pb2: the names of their fields
message_pb2 ==
    [Message |-> {"type", "sender_id", "tx", "block", "block_vote",
                  "sync_response"},
     Transaction |-> {"sender", "receiver", "amount", "timestamp", "type"},
     Block |-> {"index", "prev_hash", "timestamp", "validator",
                "transactions", "hash"}]

\* hasattr of an object of message_pb2
hasattr(kind, field) == field \in message_pb2[kind]

\* DoubleSpendingDetector.__init__ as _init_attack_detection calls it, and
\* AttackAlertManager.__init__
DoubleSpendingDetector ==
    [detection_window |-> 60000, similarity_threshold |-> 800,
     transactions_by_sender |-> <<>>, recent_blocks |-> <<>>,
     detected_attacks |-> <<>>, processed_tx_ids |-> {},
     detected_pairs |-> {}, sent_alerts |-> {},
     now |-> 0, calls |-> 0, call |-> [op |-> "None"], returned |-> <<>>,
     raised |-> "None"]

Abs(x) == IF x < 0 THEN 0 - x ELSE x

Max(x, y) == IF x < y THEN y ELSE x

\* _is_duplicate_transaction
_is_duplicate_transaction(d, new_tx) ==
    \E i \in DOMAIN d.transactions_by_sender :
        LET tx == d.transactions_by_sender[i]
        IN /\ tx.from_address = new_tx.from_address
           /\ tx.to_address = new_tx.to_address
           /\ tx.amount = new_tx.amount
           /\ Abs(new_tx.timestamp - tx.timestamp) < 2000

\* the signature that _get_unique_historical_transactions gives a
\* transaction: receiver, amount and the second of its timestamp
Signature(tx) == <<tx.to_address, tx.amount, tx.timestamp \div 1000>>

\* _get_unique_historical_transactions
_get_unique_historical_transactions(d, from_address, current_tx) ==
    LET all_txs == d.transactions_by_sender
        Candidate(i) ==
            /\ all_txs[i].from_address = from_address
            /\ all_txs[i].tx_id # current_tx.tx_id
            /\ all_txs[i].from_address # all_txs[i].to_address
            /\ Abs(current_tx.timestamp - all_txs[i].timestamp)
                  <= d.detection_window
        Unique(i) ==
            /\ Candidate(i)
            /\ \A j \in 1..(i - 1) :
                   Candidate(j) => Signature(all_txs[j]) # Signature(all_txs[i])
        Picked == {i \in DOMAIN all_txs : Unique(i)}
        Nth[k \in 0..Len(all_txs)] ==
            IF k = 0 THEN <<>>
            ELSE IF k \in Picked THEN Append(Nth[k - 1], all_txs[k])
                 ELSE Nth[k - 1]
    IN Nth[Len(all_txs)]

\* a similarity that takes the amounts to be alike whenever both are positive
AnyAmount(tx1, tx2) ==
    IF tx1.from_address = tx1.to_address \/ tx2.from_address = tx2.to_address
    THEN 0
    ELSE IF tx1.from_address # tx2.from_address THEN 0
         ELSE 1000

\* _calculate_similarity_simple
_calculate_similarity_simple(tx1, tx2) ==
    LET from1 == tx1.from_address
        from2 == tx2.from_address
        to1 == tx1.to_address
        to2 == tx2.to_address
        amount1 == tx1.amount
        amount2 == tx2.amount
        recipients == IF to1 # to2 /\ to1 # "" /\ to2 # "" THEN 200
                      ELSE IF to1 = to2 THEN 100 ELSE 0
        larger == Max(amount1, amount2)
        amount_diff == Abs(amount1 - amount2)
        amounts == IF amount1 > 0 /\ amount2 > 0
                   THEN IF amount1 = amount2 THEN 300
                        ELSE IF 10 * amount_diff <= larger
                             THEN (300 * (larger - 10 * amount_diff)) \div larger
                             ELSE 0
                   ELSE 0
        similarity == 500 + recipients + amounts
    IN IF from1 = to1 \/ from2 = to2 THEN 0
       ELSE IF ~(from1 = from2 /\ from1 # "") THEN 0
            ELSE IF similarity < 1000 THEN similarity ELSE 1000

\* the pattern of _detect_double_spending_against_history
Pattern(d, new_tx, tx, similarity) ==
    [attack_id |-> <<"ds", d.now \div 1000, Len(d.detected_attacks)>>,
     type |-> "POTENTIAL_DOUBLE_SPENDING",
     confidence |-> similarity,
     severity |-> IF similarity > 800 THEN "HIGH"
                  ELSE IF similarity > 600 THEN "MEDIUM" ELSE "LOW",
     description |-> [from_addr |-> new_tx.from_address],
     transactions |->
         <<[tx_id |-> new_tx.tx_id, to |-> new_tx.to_address,
            amount |-> new_tx.amount, node |-> new_tx.node_id],
           [tx_id |-> tx.tx_id, to |-> tx.to_address,
            amount |-> tx.amount, node |-> tx.node_id]>>]

\* a detection that keeps no record of the pairs it has reported
Unpaired(d, new_tx, historical_txs) ==
    LET Hit(i) == _calculate_similarity_simple(new_tx, historical_txs[i])
                     >= d.similarity_threshold
        hits == {i \in DOMAIN historical_txs : Hit(i)}
    IN IF hits = {} THEN [d EXCEPT !.returned = <<>>]
       ELSE LET i == CHOOSE h \in hits : \A g \in hits : h <= g
                pattern == Pattern(d, new_tx, historical_txs[i],
                               _calculate_similarity_simple(new_tx,
                                                            historical_txs[i]))
            IN [d EXCEPT !.detected_attacks = Append(@, pattern),
                         !.returned = <<pattern>>]

\* _detect_double_spending_against_history: the first of the historical
\* transactions whose pair with the new one is not yet detected and is
\* similar enough makes the one pattern
_detect_double_spending_against_history(d, new_tx, historical_txs) ==
    LET Hit(i) ==
            /\ {new_tx.tx_id, historical_txs[i].tx_id} \notin d.detected_pairs
            /\ _calculate_similarity_simple(new_tx, historical_txs[i])
                  >= d.similarity_threshold
        hits == {i \in DOMAIN historical_txs : Hit(i)}
    IN IF hits = {} THEN [d EXCEPT !.returned = <<>>]
       ELSE LET i == CHOOSE h \in hits : \A g \in hits : h <= g
                tx == historical_txs[i]
                pattern == Pattern(d, new_tx, tx,
                               _calculate_similarity_simple(new_tx, tx))
            IN [d EXCEPT !.detected_pairs = @ \cup {{new_tx.tx_id, tx.tx_id}},
                         !.detected_attacks = Append(@, pattern),
                         !.returned = <<pattern>>]

\* _cleanup_old_data: the transactions and blocks not newer than the window
\* go, with the keys of recent_blocks that are left empty and the made-up
\* ids whose timestamp is older than the window
_cleanup_old_data(d) ==
    LET cutoff_time == d.now - d.detection_window
        Recent(x) == x.timestamp > cutoff_time
        Trimmed(entry) == [entry EXCEPT !.blocks = SelectSeq(@, Recent)]
        trimmed == [i \in DOMAIN d.recent_blocks |-> Trimmed(d.recent_blocks[i])]
        Kept(entry) == entry.blocks # <<>>
        Expired(id) == Len(id) = 5 /\ id[5] < cutoff_time
    IN [d EXCEPT !.transactions_by_sender = SelectSeq(@, Recent),
                 !.recent_blocks = SelectSeq(trimmed, Kept),
                 !.processed_tx_ids = {id \in @ : ~Expired(id)}]

\* an add_transaction that takes a transfer to oneself like any other
Unskipped(d, node_id, transaction_data) ==
    LET tx_info ==
            [timestamp |-> d.now, node_id |-> node_id,
             from_address |-> transaction_data.from_address,
             to_address |-> transaction_data.to_address,
             amount |-> transaction_data.amount,
             tx_id |-> IF transaction_data.transaction_id = <<>>
                       THEN <<"tx", transaction_data.from_address,
                              transaction_data.to_address,
                              transaction_data.amount, d.now>>
                       ELSE transaction_data.transaction_id]
        marked == [d EXCEPT !.processed_tx_ids = @ \cup {tx_info.tx_id}]
        historical_txs ==
            _get_unique_historical_transactions(d, tx_info.from_address, tx_info)
        detected ==
            _detect_double_spending_against_history(marked, tx_info,
                                                    historical_txs)
    IN IF \/ transaction_data.from_address = ""
          \/ transaction_data.to_address = ""
          \/ transaction_data.amount <= 0
       THEN [d EXCEPT !.returned = <<>>]
       ELSE IF _is_duplicate_transaction(d, tx_info)
            THEN [d EXCEPT !.returned = <<>>]
            ELSE IF tx_info.tx_id \in d.processed_tx_ids
                 THEN [d EXCEPT !.returned = <<>>]
                 ELSE _cleanup_old_data(
                          [detected EXCEPT
                              !.transactions_by_sender = Append(@, tx_info)])

\* add_transaction
add_transaction(d, node_id, transaction_data) ==
    LET tx_info ==
            [timestamp |-> d.now, node_id |-> node_id,
             from_address |-> transaction_data.from_address,
             to_address |-> transaction_data.to_address,
             amount |-> transaction_data.amount,
             tx_id |-> IF transaction_data.transaction_id = <<>>
                       THEN <<"tx", transaction_data.from_address,
                              transaction_data.to_address,
                              transaction_data.amount, d.now>>
                       ELSE transaction_data.transaction_id]
        marked == [d EXCEPT !.processed_tx_ids = @ \cup {tx_info.tx_id}]
        historical_txs ==
            _get_unique_historical_transactions(d, tx_info.from_address, tx_info)
        detected ==
            _detect_double_spending_against_history(marked, tx_info,
                                                    historical_txs)
    IN IF \/ transaction_data.from_address = ""
          \/ transaction_data.to_address = ""
          \/ transaction_data.amount <= 0
       THEN [d EXCEPT !.returned = <<>>]
       ELSE IF transaction_data.from_address = transaction_data.to_address
            THEN [d EXCEPT !.returned = <<>>]
            ELSE IF _is_duplicate_transaction(d, tx_info)
                 THEN [d EXCEPT !.returned = <<>>]
                 ELSE IF tx_info.tx_id \in d.processed_tx_ids
                      THEN [d EXCEPT !.returned = <<>>]
                      ELSE _cleanup_old_data(
                               [detected EXCEPT
                                   !.transactions_by_sender = Append(@, tx_info)])

\* a test for conflicts that leaves the amounts out
AnyAmounts(tx1, tx2) ==
    /\ ~(tx1.from_address = tx1.to_address \/ tx2.from_address = tx2.to_address)
    /\ tx1.from_address = tx2.from_address /\ tx1.from_address # ""
    /\ tx1.to_address # tx2.to_address
    /\ tx1.to_address # "" /\ tx2.to_address # ""

\* the test of _find_transaction_conflicts: neither is a transfer to
\* oneself, same sender, different receivers, amounts within 20% of the
\* larger
Conflicting(tx1, tx2) ==
    /\ ~(tx1.from_address = tx1.to_address \/ tx2.from_address = tx2.to_address)
    /\ tx1.from_address = tx2.from_address /\ tx1.from_address # ""
    /\ tx1.to_address # tx2.to_address
    /\ tx1.to_address # "" /\ tx2.to_address # ""
    /\ 5 * Abs(tx1.amount - tx2.amount) <= Max(tx1.amount, tx2.amount)

\* _find_transaction_conflicts: the conflicts in the order of its two loops
_find_transaction_conflicts(txs1, txs2) ==
    LET Tx1(k) == txs1[((k - 1) \div Len(txs2)) + 1]
        Tx2(k) == txs2[((k - 1) % Len(txs2)) + 1]
        pairs == [k \in 1..(Len(txs1) * Len(txs2)) |->
                     [from_address |-> Tx1(k).from_address,
                      amount1 |-> Tx1(k).amount, amount2 |-> Tx2(k).amount,
                      to1 |-> Tx1(k).to_address, to2 |-> Tx2(k).to_address,
                      conflict |-> Conflicting(Tx1(k), Tx2(k))]]
        Found(pair) == pair.conflict
    IN SelectSeq(pairs, Found)

\* the blocks of recent_blocks in the order in which the loops of
\* _detect_fork_double_spending meet them
AllBlocks(recent_blocks) ==
    LET Upto2[k \in 0..Len(recent_blocks)] ==
            IF k = 0 THEN <<>> ELSE Upto2[k - 1] \o recent_blocks[k].blocks
    IN Upto2[Len(recent_blocks)]

\* _detect_fork_double_spending: one pattern for each stored block of the
\* same height, another hash and another node that has a conflict with the
\* new block
_detect_fork_double_spending(d, new_block) ==
    LET Competing(block) ==
            /\ block.block_height = new_block.block_height
            /\ block.block_hash # new_block.block_hash
            /\ block.node_id # new_block.node_id
        same_height_blocks == SelectSeq(AllBlocks(d.recent_blocks), Competing)
        Conflicts(fork_block) ==
            _find_transaction_conflicts(new_block.transactions,
                                        fork_block.transactions)
        Forked(fork_block) == Conflicts(fork_block) # <<>>
        forks == SelectSeq(same_height_blocks, Forked)
        patterns ==
            [k \in DOMAIN forks |->
                [attack_id |-> <<"fork", d.now \div 1000,
                                 Len(d.detected_attacks) + k - 1>>,
                 type |-> "FORK_DOUBLE_SPENDING",
                 confidence |-> 950,
                 severity |-> "CRITICAL",
                 fork_info |-> [height |-> new_block.block_height,
                                conflicts |-> Len(Conflicts(forks[k])),
                                block1_node |-> new_block.node_id,
                                block2_node |-> forks[k].node_id,
                                block1_hash |-> new_block.block_hash,
                                block2_hash |-> forks[k].block_hash],
                 conflicts_detail |-> Conflicts(forks[k])]]
    IN IF new_block.block_hash = ""
       THEN [d EXCEPT !.returned = <<>>]
       ELSE [d EXCEPT !.detected_attacks = @ \o patterns,
                      !.returned = patterns]

\* DoubleSpendingDetector.add_block
detector_add_block(d, node_id, block_data) ==
    LET block_info == [timestamp |-> d.now, node_id |-> node_id,
                       block_height |-> block_data.height,
                       parent_hash |-> block_data.parent_hash,
                       block_hash |-> block_data.hash,
                       transactions |-> block_data.transactions]
        detected == _detect_fork_double_spending(d, block_info)
        Of(entry) == entry.node_id = node_id
        stored ==
            IF \E i \in DOMAIN d.recent_blocks : Of(d.recent_blocks[i])
            THEN [i \in DOMAIN d.recent_blocks |->
                     IF Of(d.recent_blocks[i])
                     THEN [d.recent_blocks[i] EXCEPT
                              !.blocks = Append(@, block_info)]
                     ELSE d.recent_blocks[i]]
            ELSE Append(d.recent_blocks,
                        [node_id |-> node_id, blocks |-> <<block_info>>])
    IN _cleanup_old_data([detected EXCEPT !.recent_blocks = stored])

\* AttackAlertManager.send_alert: each pattern whose attack_id was not yet
\* sent is sent, to the console, the log and the callbacks
send_alert(d, attack_patterns) ==
    [d EXCEPT !.sent_alerts =
                  @ \cup {attack_patterns[i].attack_id :
                              i \in DOMAIN attack_patterns}]

\* set_threshold, in thousandths
set_threshold(d, threshold) ==
    IF 0 <= threshold /\ threshold <= 1000
    THEN [d EXCEPT !.similarity_threshold = threshold]
    ELSE d

(***************************************************************************)
(* aserver_detect.py: the relay with the detector.  A transaction or block  *)
(* of a frame is the object of message_pb2, with the fields of its type.    *)
(* raises says where the handling of a frame raises an exception: nowhere   *)
(* ("None"), in the detection or in a callback of the alert manager.  What  *)
(* a parser returns is <<>> for None and <<data>> for the dict data.        *)
(***************************************************************************)
\* getattr(obj, field, default) of an object of message_pb2
getattr(obj, kind, field, default) ==
    IF hasattr(kind, field) THEN obj[field] ELSE default

\* the value of the first of the fields that the object has and that is
\* not empty, None when there is none
FirstField(tx_obj, fields) ==
    LET Held(i) == hasattr("Transaction", fields[i]) /\ tx_obj[fields[i]] # ""
        held == {i \in DOMAIN fields : Held(i)}
    IN IF held = {} THEN None
       ELSE tx_obj[fields[CHOOSE i \in held : \A j \in held : i <= j]]

\* _parse_transaction_object
_parse_transaction_object(tx_obj) ==
    LET from_address ==
            FirstField(tx_obj, <<"from_address", "from_addr", "sender",
                                 "sender_address", "from">>)
        to_address ==
            FirstField(tx_obj, <<"to_address", "to_addr", "receiver",
                                 "recipient", "recipient_address", "to">>)
        amount == IF hasattr("Transaction", "amount") THEN tx_obj.amount
                  ELSE IF hasattr("Transaction", "value") THEN tx_obj.value
                  ELSE IF hasattr("Transaction", "quantity") THEN tx_obj.quantity
                  ELSE 0
        transaction_id ==
            FirstField(tx_obj, <<"transaction_id", "tx_id", "id", "hash">>)
    IN IF from_address = None \/ to_address = None \/ amount = 0
       THEN <<>>
       ELSE <<[from_address |-> from_address, to_address |-> to_address,
               amount |-> amount,
               transaction_id |-> IF transaction_id = None THEN <<>>
                                  ELSE <<transaction_id>>]>>

\* _extract_transaction_from_message
_extract_transaction_from_message(msg) ==
    IF hasattr("Message", "tx") THEN _parse_transaction_object(msg.tx)
    ELSE <<>>

\* _safe_get_block_data
_safe_get_block_data(block_msg) ==
    IF ~hasattr("Block", "height") THEN <<>>
    ELSE LET transactions == getattr(block_msg, "Block", "transactions", <<>>)
             parsed == [i \in DOMAIN transactions |->
                           _parse_transaction_object(transactions[i])]
             Parsed(tx_data) == tx_data # <<>>
             found == SelectSeq(parsed, Parsed)
         IN <<[height |-> getattr(block_msg, "Block", "height", 0),
               parent_hash |-> getattr(block_msg, "Block", "parent_hash", ""),
               hash |-> getattr(block_msg, "Block", "hash", ""),
               transactions |-> [i \in DOMAIN found |-> found[i][1]]]>>

\* an exception that leaves _detect_and_alert_double_spending
Uncaught(raises) == raises # "None"

\* whether an exception raised in the detection or in a callback leaves
\* _detect_and_alert_double_spending: its handlers catch every Exception
Escapes(raises) == FALSE

\* _detect_and_alert_double_spending
_detect_and_alert_double_spending(d, node_id, msg, raises) ==
    LET Called(op, data) ==
            [d EXCEPT !.calls = @ + 1,
                      !.call = [op |-> op, node_id |-> node_id, data |-> data]]
        Alerted(detected) ==
            IF detected.returned # <<>> THEN send_alert(detected, detected.returned)
            ELSE detected
    IN IF raises = "detection" THEN d
       ELSE IF msg.type = "TRANSACTION"
       THEN LET tx_data == _extract_transaction_from_message(msg)
            IN IF tx_data = <<>> THEN d
               ELSE Alerted(add_transaction(
                                Called("add_transaction", tx_data[1]),
                                node_id, tx_data[1]))
       ELSE IF msg.type = "BLOCK"
       THEN IF ~hasattr("Message", "block") THEN d
            ELSE LET block_data == _safe_get_block_data(msg.block)
                 IN IF block_data = <<>> THEN d
                    ELSE Alerted(detector_add_block(
                                     Called("add_block", block_data[1]),
                                     node_id, block_data[1]))
       ELSE d

\* AttackDetectionServer._handle_message, as the reader task of client p
\* awaits it for the message it has read: the detection, then the
\* _handle_message of BlockchainServerAsync, which broadcasts the message to
\* the others
_handle_message(p, message, raises, gap) ==
    LET frame == [message EXCEPT !.seq = Len(server.received) + 1]
        Other(q) == q # p
        todo == SelectSeq(server.clients, Other)
        read == [server EXCEPT !.received = Append(@, frame)]
    IN /\ server.fanout[p].todo = <<>>
       /\ Len(server.received) < MaxFrames
       /\ attack_detector' =
              [_detect_and_alert_double_spending(
                   [attack_detector EXCEPT !.now = @ + gap], p, frame, raises)
               EXCEPT !.raised = raises]
       /\ IF Escapes(raises)
          THEN server' = read
          ELSE \E k \in Suspensions(server, todo) :
                   server' = _broadcast(read, p, frame, todo, k)
       /\ UNCHANGED <<config, connection, data_dir, timer, manager, dispatcher, voting,
                      chain, blocks_by_hash, wallet, reorg_removed, mempool,
                      known_nodes, sync_in_progress, sync_responses, sync_timers,
                      inbox, clock, last>>

(***************************************************************************)
(* The framing of a connection from a client to the relay.  A byte is a     *)
(* number below 256 and a message is its serialized bytes; sent are the     *)
(* messages that Client.send wrote, stream their frames one after another,  *)
(* wire the bytes of stream that the relay has not yet read, buffer the     *)
(* buffer of _handle_client and messages the raw messages that it has       *)
(* handed to _handle_message.  cuts is not in the code: where the chunks    *)
(* that the reads returned have ended, in a header, in a payload (or just   *)
(* before it) or at the end of a frame.                                     *)
(***************************************************************************)
\* len(data).to_bytes(4, byteorder='big') of Client.send
to_bytes(length) ==
    <<(length \div (256 * 256 * 256)) % 256, (length \div (256 * 256)) % 256,
      (length \div 256) % 256, length % 256>>

\* the frames of the messages as Client.send writes them
RECURSIVE Frames(_)
Frames(sent) ==
    IF sent = <<>> THEN <<>>
    ELSE to_bytes(Len(Head(sent))) \o Head(sent) \o Frames(Tail(sent))

\* a connection on which the messages sent have been written
Connection(sent) ==
    [sent |-> sent, stream |-> Frames(sent), wire |-> Frames(sent),
     cuts |-> {}, buffer |-> <<>>, messages |-> <<>>]

\* a length read with the lowest byte first
LittleEndian(header) ==
    ((header[4] * 256 + header[3]) * 256 + header[2]) * 256 + header[1]

\* struct.unpack('>I', buffer[:4])[0]
unpack(header) ==
    ((header[1] * 256 + header[2]) * 256 + header[3]) * 256 + header[4]

\* the inner loop of _handle_client: while the buffer holds a whole frame,
\* the frame is taken from it and its message is handled
RECURSIVE Unframe(_)
Unframe(c) ==
    IF Len(c.buffer) < 4 THEN c
    ELSE LET msg_len == unpack(SubSeq(c.buffer, 1, 4))
         IN IF Len(c.buffer) < 4 + msg_len THEN c
            ELSE Unframe([c EXCEPT
                             !.messages = Append(@, SubSeq(c.buffer, 5, 4 + msg_len)),
                             !.buffer = SubSeq(@, 4 + msg_len + 1, Len(@))])

\* one turn of the outer loop of _handle_client: reader.read(4096) returns
\* the next size bytes of the connection, which are added to the buffer
Read(size) ==
    /\ size <= 4096
    /\ size <= Len(connection.wire)
    /\ LET read == Unframe([connection EXCEPT
                               !.buffer = @ \o SubSeq(connection.wire, 1, size),
                               !.wire = SubSeq(@, size + 1, Len(@))])
       IN connection' =
              [read EXCEPT
                  !.cuts = @ \cup {IF read.buffer = <<>> THEN "frame"
                                   ELSE IF Len(read.buffer) < 4 THEN "header"
                                   ELSE "payload"}]
    /\ UNCHANGED <<config, attack_detector, data_dir, timer, server, manager,
                   dispatcher, voting, chain, blocks_by_hash, wallet,
                   reorg_removed, mempool, known_nodes, sync_in_progress,
                   sync_responses, sync_timers, inbox, clock, last>>

(***************************************************************************)
(* client.py: the receive path of a node.  The socket is non-blocking;     *)
(* available holds the bytes that have arrived and that recv has not yet   *)
(* taken, wire those still under way.  at is "select" while wait_loop      *)
(* waits in select, "recv" inside the loop of _recv_full_message and       *)
(* "returned" once wait_loop has returned.                                 *)
(***************************************************************************)
\* the socket of a Client to which the relay has written the messages sent
Socket(sent) ==
    [sent |-> sent, wire |-> Frames(sent), available |-> <<>>,
     at |-> "select", length |-> 0, data |-> <<>>, messages |-> <<>>]

\* the next size bytes of the relay's stream arrive at the socket
Arrive(size) ==
    /\ size <= Len(connection.wire)
    /\ connection' = [connection EXCEPT
                          !.available = @ \o SubSeq(connection.wire, 1, size),
                          !.wire = SubSeq(@, size + 1, Len(@))]
    /\ UNCHANGED <<config, attack_detector, data_dir, timer, server, manager,
                   dispatcher, voting, chain, blocks_by_hash, wallet,
                   reorg_removed, mempool, known_nodes, sync_in_progress,
                   sync_responses, sync_timers, inbox, clock, last>>

\* receive_and_dispatch once select has found the socket readable, up to
\* the loop of _recv_full_message: recv(4) returns the bytes that are there,
\* four at most; fewer than four make _recv_full_message return None, and
\* so does a length of zero make receive_and_dispatch return False
receive_and_dispatch ==
    LET header == SubSeq(connection.available, 1, 4)
        rest == SubSeq(connection.available, 5, Len(connection.available))
    IN /\ connection.at = "select"
       /\ connection.available # <<>>
       /\ connection' =
              IF Len(connection.available) < 4
              THEN [connection EXCEPT !.available = <<>>, !.at = "returned"]
              ELSE IF unpack(header) = 0
                   THEN [connection EXCEPT !.available = rest, !.at = "returned"]
                   ELSE [connection EXCEPT !.available = rest, !.at = "recv",
                                           !.length = unpack(header),
                                           !.data = <<>>]
       /\ UNCHANGED <<config, attack_detector, data_dir, timer, server, manager,
                      dispatcher, voting, chain, blocks_by_hash, wallet,
                      reorg_removed, mempool, known_nodes, sync_in_progress,
                      sync_responses, sync_timers, inbox, clock, last>>

\* one turn of the loop of _recv_full_message and, after the last one, the
\* rest of receive_and_dispatch: recv(length - len(data)) raises
\* BlockingIOError when no byte is there, which the bare except turns into
\* None; the whole payload is parsed and handed to its handler
recv ==
    LET wanted == connection.length - Len(connection.data)
        size == IF wanted < Len(connection.available) THEN wanted
                ELSE Len(connection.available)
        data == connection.data \o SubSeq(connection.available, 1, size)
        left == SubSeq(connection.available, size + 1, Len(connection.available))
    IN /\ connection.at = "recv"
       /\ connection' =
              IF connection.available = <<>>
              THEN [connection EXCEPT !.at = "returned"]
              ELSE IF Len(data) < connection.length
                   THEN [connection EXCEPT !.available = left, !.data = data]
                   ELSE [connection EXCEPT !.available = left, !.data = <<>>,
                                           !.at = "select",
                                           !.messages = Append(@, data)]
       /\ UNCHANGED <<config, attack_detector, data_dir, timer, server, manager,
                      dispatcher, voting, chain, blocks_by_hash, wallet,
                      reorg_removed, mempool, known_nodes, sync_in_progress,
                      sync_responses, sync_timers, inbox, clock, last>>

(***************************************************************************)
(* timer.py.  start and stop are called on one thread; _run is called on    *)
(* the thread of a threading.Timer and takes no lock, so a call of stop or  *)
(* start may fall between its test of running, its call of the callback    *)
(* and the rest of it.  One thread is followed through _run at a time, and  *)
(* start is followed while at most MaxStale other threads are about.        *)
(* timer is None, "armed", "fired" or "cancelled": the threading.Timer that *)
(* self.timer names; stale counts the armed ones that it no longer names.   *)
(* calls, stopped, returned and late are not fields of the code: callbacks  *)
(* since the last start, stop was ever called, stop has returned since the  *)
(* last start, a callback began after stop had returned.                    *)
(***************************************************************************)
\* Timer.__init__
Timer(repeat) ==
    [repeat |-> repeat, counter |-> 0, running |-> FALSE, timer |-> "None",
     stale |-> 0, run |-> "idle",
     calls |-> 0, stopped |-> FALSE, returned |-> FALSE, late |-> FALSE]

\* Timer.start
start ==
    /\ timer.stale + (IF timer.timer = "armed" THEN 1 ELSE 0)
           + (IF timer.run = "idle" THEN 0 ELSE 1) <= MaxStale
    /\ timer' = IF timer.running THEN timer
                ELSE [timer EXCEPT !.running = TRUE, !.counter = 0,
                                   !.timer = "armed",
                                   !.stale = IF timer.timer = "armed"
                                             THEN @ + 1 ELSE @,
                                   !.calls = 0, !.returned = FALSE]
    /\ UNCHANGED <<config, connection, attack_detector, data_dir, server, manager, dispatcher, voting, chain,
                   blocks_by_hash, wallet, reorg_removed, mempool, known_nodes,
                   sync_in_progress, sync_responses, sync_timers, inbox, clock,
                   last>>

\* Timer.stop
stop ==
    /\ timer' = [timer EXCEPT !.running = FALSE,
                              !.timer = IF @ = "armed" THEN "cancelled" ELSE @,
                              !.stopped = TRUE, !.returned = TRUE]
    /\ UNCHANGED <<config, connection, attack_detector, data_dir, server, manager, dispatcher, voting, chain,
                   blocks_by_hash, wallet, reorg_removed, mempool, known_nodes,
                   sync_in_progress, sync_responses, sync_timers, inbox, clock,
                   last>>

\* a threading.Timer that is armed fires and calls Timer._run, which returns
\* at once unless running
_run ==
    /\ timer.run = "idle"
    /\ \E named \in BOOLEAN :
           /\ IF named THEN timer.timer = "armed" ELSE timer.stale > 0
           /\ timer' = [timer EXCEPT
                           !.timer = IF named THEN "fired" ELSE @,
                           !.stale = IF named THEN @ ELSE @ - 1,
                           !.run = IF timer.running THEN "checked" ELSE @]
    /\ UNCHANGED <<config, connection, attack_detector, data_dir, server, manager, dispatcher, voting, chain,
                   blocks_by_hash, wallet, reorg_removed, mempool, known_nodes,
                   sync_in_progress, sync_responses, sync_timers, inbox, clock,
                   last>>

\* _run calls the callback, and catches what it raises
Callback ==
    /\ timer.run = "checked"
    /\ timer.calls < MaxCalls
    /\ timer' = [timer EXCEPT !.run = "called", !.calls = @ + 1,
                              !.late = @ \/ timer.returned]
    /\ UNCHANGED <<config, connection, attack_detector, data_dir, server, manager, dispatcher, voting, chain,
                   blocks_by_hash, wallet, reorg_removed, mempool, known_nodes,
                   sync_in_progress, sync_responses, sync_timers, inbox, clock,
                   last>>

\* a _run that never goes on after its callback
Never(repeat, counter) == FALSE

\* the test of _run after counter += 1
Again(repeat, counter) == repeat = 0 - 1 \/ counter < repeat

\* the rest of _run: the count, and the next threading.Timer or the end
Rearm ==
    /\ timer.run = "called"
    /\ timer' = IF Again(timer.repeat, timer.counter + 1)
                THEN [timer EXCEPT !.run = "idle", !.counter = @ + 1,
                                   !.timer = "armed",
                                   !.stale = IF timer.timer = "armed"
                                             THEN @ + 1 ELSE @]
                ELSE [timer EXCEPT !.run = "idle", !.counter = @ + 1,
                                   !.running = FALSE]
    /\ UNCHANGED <<config, connection, attack_detector, data_dir, server, manager, dispatcher, voting, chain,
                   blocks_by_hash, wallet, reorg_removed, mempool, known_nodes,
                   sync_in_progress, sync_responses, sync_timers, inbox, clock,
                   last>>

\* a WalletManager in the configured state; call and returned are the last
\* call made on it and what the call returned
WalletManager ==
    [accounts |-> set_state(initial_state),
     call |-> [op |-> "set_state", account_id |-> "None", receiver |-> "None",
               amount |-> 0, validate_only |-> FALSE],
     returned |-> TRUE]

\* config.yaml of a network without voting, where no account has a stake
NoVoting ==
    [vote |-> [enabled |-> FALSE, threshold |-> 66],
     initial_state |-> << [id |-> "n1", balance |-> 2, stake |-> 0],
                          [id |-> "n2", balance |-> 1, stake |-> 0] >>]

\* no block is pending, no vote Timer is running, no handler is under way
InitVote ==
    /\ pending_blocks = [n \in Nodes |-> <<>>]
    /\ pending_block_votes = [n \in Nodes |-> <<>>]
    /\ vote_timers = [n \in Nodes |-> {}]
    /\ dispatcher = [n \in Nodes |-> Resting]

Init ==
    /\ config = NoVoting
    /\ InitVote
    /\ server = BlockchainServerAsync
    /\ manager = WalletManager
    /\ attack_detector = DoubleSpendingDetector
    /\ connection = Connection(<<>>)
    /\ data_dir = [n \in Nodes |-> <<>>]
    /\ timer = Timer(1)
    /\ chain = [n \in Nodes |-> Blockchain.chain]
    /\ blocks_by_hash = [n \in Nodes |-> Blockchain.blocks_by_hash]
    /\ wallet = [n \in Nodes |-> Blockchain.wallet]
    /\ reorg_removed = [n \in Nodes |-> Blockchain.reorg_removed]
    /\ mempool = [n \in Nodes |-> <<>>]
    /\ known_nodes = [n \in Nodes |-> {n}]
    /\ sync_in_progress = [n \in Nodes |-> n = Joiner]
    /\ sync_responses = [n \in Nodes |-> <<>>]
    /\ sync_timers = [n \in Nodes |-> IF n = Joiner THEN 1 ELSE 0]
    /\ inbox = [n \in Nodes |->
                   IF n = Joiner THEN <<>> ELSE <<Hello(Joiner), SyncRequest(Joiner)>>]
    /\ clock = [n \in Nodes |-> 0]
    /\ last = Quiet

Next ==
    \E n \in Nodes :
        \/ Commands(n, Nodes, JoinClock)
        \/ _on_hello(n)
        \/ _on_transaction(n)
        \/ _on_block(n)
        \/ _on_sync_request(n)
        \/ _on_sync_response(n)
        \/ _process_sync_responses(n)

Spec == Init /\ [][Next]_vars

\* The same network once Joiner's sync has ended: the others have handled
\* its HELLO and SYNC_REQUEST and answered with the genesis chain, Joiner has
\* stored the answer and its Timer has fired.
Synced ==
    /\ chain = [n \in Nodes |-> Blockchain.chain]
    /\ blocks_by_hash = [n \in Nodes |-> Blockchain.blocks_by_hash]
    /\ wallet = [n \in Nodes |-> Blockchain.wallet]
    /\ reorg_removed = [n \in Nodes |-> Blockchain.reorg_removed]
    /\ mempool = [n \in Nodes |-> <<>>]
    /\ known_nodes = [n \in Nodes |-> Nodes]
    /\ sync_in_progress = [n \in Nodes |-> FALSE]
    /\ sync_responses = [n \in Nodes |->
                            IF n = Joiner
                            THEN <<[sender_id |-> "n1", blocks |-> Blockchain.chain]>>
                            ELSE <<>>]
    /\ sync_timers = [n \in Nodes |-> 0]
    /\ inbox = [n \in Nodes |-> <<>>]
    /\ clock = [n \in Nodes |-> 0]
    /\ last = Quiet

NextSynced ==
    \E n \in Nodes :
        \/ Commands(n, Nodes, MaxClock)
        \/ _on_transaction(n)
        \/ _on_block(n)

InitSynced ==
    /\ config = NoVoting
    /\ InitVote
    /\ server = BlockchainServerAsync
    /\ manager = WalletManager
    /\ attack_detector = DoubleSpendingDetector
    /\ connection = Connection(<<>>)
    /\ data_dir = [n \in Nodes |-> <<>>]
    /\ timer = Timer(1)
    /\ Synced

SpecSynced == InitSynced /\ [][NextSynced]_vars

\* The network of Spec, where a peer outside Nodes answers a SYNC_REQUEST too.
Responder == "n3"

NextPeerSync ==
    \/ Next
    \/ \E n \in Nodes, m \in Nodes :
           \E blocks \in SubSeqs(chain[m]) : PeerSyncResponse(n, Responder, blocks)

SpecPeerSync == Init /\ [][NextPeerSync]_vars

\* Blockchain.balance, which a handler calls with the sender of a frame:
\* reading the balance of an unknown account creates it
balance(n, account_id) ==
    /\ ~HasAccount(wallet[n], account_id)
    /\ wallet' = [wallet EXCEPT ![n] = _ensure_account(@, account_id)]
    /\ last' = Quiet
    /\ UNCHANGED <<config, connection, attack_detector, data_dir, timer, server, manager, dispatcher, voting, chain, blocks_by_hash, reorg_removed, mempool, known_nodes,
                   sync_in_progress, sync_responses, sync_timers, inbox, clock>>

\* the chain store of n is handed a block that sender forged on n's head:
\* one transfer of sender
HandBlock(n, sender, receiver, amount) ==
    LET prev == Last(chain[n])
        tx == Transaction(sender, receiver, amount, 0, TRANSFER)
    IN /\ prev.index < MaxHeight
       /\ _add_block(n, BC(n), Block(prev.index + 1, prev.hash, <<tx>>, sender, 0))
       /\ UNCHANGED <<config, connection, attack_detector, data_dir, timer, server, manager, dispatcher, voting, known_nodes, sync_in_progress, sync_responses, sync_timers,
                      inbox, clock>>

\* Two chain stores, each with its own history of balances read and blocks
\* added; the transfers go to accounts that the configuration does not list.
NextElect ==
    \E n \in Nodes :
        \/ \E account_id \in Peers : balance(n, account_id)
        \/ \E sender \in Nodes, receiver \in Peers, amount \in 1..MaxAmount :
               HandBlock(n, sender, receiver, amount)

SpecElect == InitSynced /\ [][NextElect]_vars

\* The network of SpecSynced, where the commands tx, stake and unstake name
\* any amount that float() parses, zero included.
SendAmounts == 0..MaxAmount

SendCommands(n) ==
    /\ clock[n] < JoinClock
    /\ \/ \E receiver \in Nodes, amount \in SendAmounts, tx_type \in TxTypes :
              create_transaction(n, receiver, amount, tx_type)
       \/ /\ Last(chain[n]).index < MaxHeight
          /\ forge_block(n)

NextSend ==
    \E n \in Nodes :
        \/ SendCommands(n)
        \/ _on_transaction(n)
        \/ _on_block(n)

SpecSend == InitSynced /\ [][NextSend]_vars

\* config.yaml of a network with voting: n1 has a stake, and each of n2 and
\* Responder, which the nodes know from its HELLO, has one or has none
VotingConfigs ==
    {[vote |-> [enabled |-> TRUE, threshold |-> 66],
      initial_state |-> << [id |-> "n1", balance |-> 2, stake |-> 1],
                           [id |-> "n2", balance |-> 1, stake |-> stake2],
                           [id |-> Responder, balance |-> 0, stake |-> stake3] >>] :
         stake2 \in {0, 1}, stake3 \in {0, 1}}

\* the network with voting once every sync has ended
InitVoting ==
    /\ config \in VotingConfigs
    /\ InitVote
    /\ server = BlockchainServerAsync
    /\ manager = WalletManager
    /\ attack_detector = DoubleSpendingDetector
    /\ connection = Connection(<<>>)
    /\ data_dir = [n \in Nodes |-> <<>>]
    /\ timer = Timer(1)
    /\ chain = [n \in Nodes |-> Blockchain.chain]
    /\ blocks_by_hash = [n \in Nodes |-> Blockchain.blocks_by_hash]
    /\ wallet = [n \in Nodes |-> Blockchain.wallet]
    /\ reorg_removed = [n \in Nodes |-> Blockchain.reorg_removed]
    /\ mempool = [n \in Nodes |-> <<>>]
    /\ known_nodes = [n \in Nodes |-> Nodes \cup {Responder}]
    /\ sync_in_progress = [n \in Nodes |-> FALSE]
    /\ sync_responses = [n \in Nodes |-> <<>>]
    /\ sync_timers = [n \in Nodes |-> 0]
    /\ inbox = [n \in Nodes |-> <<>>]
    /\ clock = [n \in Nodes |-> 0]
    /\ last = Quiet

\* the commands that the nodes of S have run
RECURSIVE Ticks(_)
Ticks(S) ==
    IF S = {} THEN 0
    ELSE LET n == CHOOSE x \in S : TRUE IN clock[n] + Ticks(S \ {n})

VotingCommands(n) ==
    /\ Ticks(Nodes) < MaxCommands
    /\ Commands(n, Nodes, JoinClock)

NextVoting ==
    \E n \in Nodes :
        \/ VotingCommands(n)
        \/ _on_transaction(n)
        \/ _on_block(n)
        \/ _on_block_vote(n)
        \/ RecordVote(n)
        \/ ClearPending(n)
        \/ \E block_hash \in vote_timers[n] : _check_vote_timeout(n, block_hash)

SpecVoting == InitVoting /\ [][NextVoting]_vars

\* The network of SpecVoting, where the nodes run one tx and one forge
\* between them, Joiner runs the command sync and the others answer it.
NextVoteSync ==
    \E n \in Nodes :
        \/ Ticks(Nodes) < JoinClock /\ Commands(n, Nodes, JoinClock)
        \/ n = Joiner /\ request_sync(n)
        \/ _on_transaction(n)
        \/ _on_block(n)
        \/ _on_block_vote(n)
        \/ RecordVote(n)
        \/ ClearPending(n)
        \/ \E block_hash \in vote_timers[n] : _check_vote_timeout(n, block_hash)
        \/ _on_sync_request(n)
        \/ _on_sync_response(n)
        \/ _process_sync_responses(n)

SpecVoteSync == InitVoting /\ [][NextVoteSync]_vars

\* the relay writes to n a BLOCK_VOTE frame that a peer outside Nodes sent
\* for a block pending at n: the message names its sender and its voter.
\* The peer has one frame in flight to n and votes once per voter.
PeerBlockVote(n, sender_id, voter_id) ==
    /\ Len(inbox[n]) < MaxInbox
    /\ \A i \in DOMAIN inbox[n] : inbox[n][i].sender_id # sender_id
    /\ \E block_hash \in DOMAIN pending_blocks[n] \cap DOMAIN pending_block_votes[n] :
           /\ voter_id \notin pending_block_votes[n][block_hash]
           /\ inbox' = [inbox EXCEPT ![n] =
                           Append(@, BlockVote(sender_id, voter_id, block_hash))]
    /\ UNCHANGED <<config, connection, attack_detector, data_dir, timer, server, manager, dispatcher, voting, chain, blocks_by_hash, wallet,
                   reorg_removed, mempool, known_nodes, sync_in_progress,
                   sync_responses, sync_timers, clock, last>>

\* The network of SpecVoting, where the node that was silent votes too, and
\* the nodes run one tx and one forge between them.
NextPeerVote ==
    \E n \in Nodes :
        \/ Ticks(Nodes) < JoinClock /\ Commands(n, Nodes, JoinClock)
        \/ _on_transaction(n)
        \/ _on_block(n)
        \/ _on_block_vote(n)
        \/ RecordVote(n)
        \/ ClearPending(n)
        \/ \E block_hash \in vote_timers[n] : _check_vote_timeout(n, block_hash)
        \/ \E voter_id \in Peers : PeerBlockVote(n, Responder, voter_id)

SpecPeerVote == InitVoting /\ [][NextPeerVote]_vars

\* The relay and three clients that send it frames, while the operator
\* sets and clears the drop and the delay of the last of them.
NextRelay ==
    \/ \E p \in Range(server.clients) : _handle_client(p)
    \/ \E p \in Range(server.clients) : _send_immediate(p)
    \/ \E task \in server.sleeping : _send_with_delay(task)
    \/ _cmd_drop(Last(server.clients))
    \/ \E ms \in 0..MaxDelay : _cmd_delay(Last(server.clients), ms)

SpecRelay == InitSynced /\ [][NextRelay]_vars

\* The relay while connections are lost, STEP frames are broadcast, the
\* operator drops the last client and gives the exit command, and a node
\* that handles the BYE frames that the relay has written to it.
NextClose ==
    \/ \E p \in DOMAIN ByeTask :
           /\ p \in server.closed \/ Len(server.received) < MaxSteps
           /\ _handle_client(p)
    \/ \E p \in DOMAIN server.fanout : _send_immediate(p)
    \/ _cmd_drop(Last(BlockchainServerAsync.clients))
    \/ \E p \in DOMAIN ByeTask :
           Cardinality(server.closed) < MaxLost /\ ConnectionLost(p)
    \/ _broadcast_step
    \/ shutdown
    \/ _graceful_shutdown
    \/ \E n \in Nodes \ {Joiner} : \E w \in Range(server.written[n]) :
           w.frame.type = "BYE" /\ _on_bye(n, w.frame.sender_id)

SpecClose == InitSynced /\ [][NextClose]_vars

\* A Timer on its own, with the calls of start and stop and its threads.
NextTimer ==
    \/ start
    \/ stop
    \/ _run
    \/ Callback
    \/ Rearm

InitTimer ==
    /\ config = NoVoting
    /\ InitVote
    /\ server = BlockchainServerAsync
    /\ manager = WalletManager
    /\ attack_detector = DoubleSpendingDetector
    /\ connection = Connection(<<>>)
    /\ data_dir = [n \in Nodes |-> <<>>]
    /\ timer \in {Timer(repeat) : repeat \in {0 - 1} \cup 1..MaxRepeat}
    /\ Synced

SpecTimer == InitTimer /\ [][NextTimer]_vars

\* The detector on its own: the calls of add_transaction and add_block with
\* datetime.now() a little, two seconds or a detection window later than at
\* the call before, and the threshold command.
Gaps == {1, 2000, 60000}

\* the transactions of the calls: a stake, transfers of one sender to two
\* receivers with amounts 5% apart, one without amount and one of another
\* sender, each with and without a transaction_id
TransactionData ==
    LET tx(from_address, to_address, amount, transaction_id) ==
            [from_address |-> from_address, to_address |-> to_address,
             amount |-> amount, transaction_id |-> transaction_id]
    IN UNION {{tx("n1", "n1", 20, id), tx("n1", "n2", 20, id),
               tx("n1", "n3", 20, id), tx("n1", "n3", 19, id),
               tx("n1", "n2", 0, id), tx("n2", "n3", 20, id)} :
                  id \in {<<>>, <<"tx1">>}}

IntakeTransaction(gap, node_id, transaction_data) ==
    /\ attack_detector.calls < MaxIntakes
    /\ attack_detector' =
           add_transaction(
               [attack_detector EXCEPT
                   !.now = @ + gap, !.calls = @ + 1,
                   !.call = [op |-> "add_transaction", node_id |-> node_id,
                             data |-> transaction_data]],
               node_id, transaction_data)
    /\ UNCHANGED <<config, connection, data_dir, timer, server, manager, dispatcher, voting,
                   chain, blocks_by_hash, wallet, reorg_removed, mempool,
                   known_nodes, sync_in_progress, sync_responses, sync_timers,
                   inbox, clock, last>>

_cmd_threshold(threshold) ==
    /\ attack_detector' = set_threshold(attack_detector, threshold)
    /\ UNCHANGED <<config, connection, data_dir, timer, server, manager, dispatcher, voting,
                   chain, blocks_by_hash, wallet, reorg_removed, mempool,
                   known_nodes, sync_in_progress, sync_responses, sync_timers,
                   inbox, clock, last>>

\* the transactions of the blocks: two that conflict, with amounts 20% apart,
\* one too far from the first to conflict with it, and a stake
BlockTransactions ==
    LET tx(from_address, to_address, amount) ==
            [from_address |-> from_address, to_address |-> to_address,
             amount |-> amount]
    IN {<<>>, <<tx("n1", "n2", 20)>>, <<tx("n1", "n3", 16)>>,
        <<tx("n1", "n3", 10)>>, <<tx("n1", "n1", 20), tx("n1", "n3", 20)>>}

BlockData ==
    [height : {1}, parent_hash : {"h0"}, hash : {"h1", "h2"},
     transactions : BlockTransactions]
    \cup [height : {1}, parent_hash : {"h0"}, hash : {""},
          transactions : {<<>>}]

IntakeBlock(gap, node_id, block_data) ==
    /\ attack_detector.calls < MaxIntakes
    /\ attack_detector' =
           detector_add_block(
               [attack_detector EXCEPT
                   !.now = @ + gap, !.calls = @ + 1,
                   !.call = [op |-> "add_block", node_id |-> node_id,
                             data |-> block_data]],
               node_id, block_data)
    /\ UNCHANGED <<config, connection, data_dir, timer, server, manager, dispatcher, voting,
                   chain, blocks_by_hash, wallet, reorg_removed, mempool,
                   known_nodes, sync_in_progress, sync_responses, sync_timers,
                   inbox, clock, last>>

NextDetector ==
    \/ \E gap \in Gaps : \E transaction_data \in TransactionData :
           IntakeTransaction(gap, transaction_data.from_address,
                             transaction_data)
    \/ \E gap \in Gaps \ {2000} : \E node_id \in {"n1", "n2"} :
           \E block_data \in BlockData :
               IntakeBlock(gap, node_id, block_data)
    \/ \E threshold \in {0, 800, 1001} : _cmd_threshold(threshold)

SpecDetector == InitSynced /\ [][NextDetector]_vars

\* The detector on its own, given transfers whose similarities are 0.6 (same
\* receiver, amounts a third apart), 0.7, 0.8 (same receiver, amounts 29 and
\* 30), 0.9 and 1.0, none with a transaction_id, as the relay gives them.
ScoreData ==
    LET tx(from_address, to_address, amount) ==
            [from_address |-> from_address, to_address |-> to_address,
             amount |-> amount, transaction_id |-> <<>>]
    IN {tx("n1", "n2", 30), tx("n1", "n2", 29), tx("n1", "n2", 20),
        tx("n1", "n3", 30), tx("n2", "n3", 30)}

NextSimilarity ==
    \/ \E gap \in Gaps : \E transaction_data \in ScoreData :
           IntakeTransaction(gap, transaction_data.from_address,
                             transaction_data)
    \/ \E threshold \in {0, 600, 800} : _cmd_threshold(threshold)

SpecSimilarity == InitSynced /\ [][NextSimilarity]_vars

\* The relay with the detector and two clients that send it transactions
\* and blocks: a transfer of n1 to each of the others, a stake, and two
\* blocks of index 1, one of each client, that hold the two transfers; the
\* relay reads a frame every two seconds.
Messages(p) ==
    LET tx(receiver, type) == Transaction("n1", receiver, 20, 1, type)
        block(receiver) ==
            Block(1, genesis_block.hash, <<tx(receiver, TRANSFER)>>, p, 1)
    IN {[type |-> "TRANSACTION", sender_id |-> p, seq |-> 0,
         tx |-> tx(receiver, TRANSFER)] : receiver \in {"n2", "n3"}}
       \cup {[type |-> "TRANSACTION", sender_id |-> p, seq |-> 0,
              tx |-> tx("n1", STAKE)],
             [type |-> "BLOCK", sender_id |-> p, seq |-> 0,
              block |-> block(IF p = "n1" THEN "n2" ELSE "n3")]}

NextDetect ==
    \/ \E p \in {"n1", "n2"} : \E message \in Messages(p) :
           \E raises \in {"None", "detection", "callback"} :
               _handle_message(p, message, raises, 2000)
    \/ \E p \in {"n1", "n2"} : _send_immediate(p)
    \/ _cmd_drop(Last(server.clients))

SpecDetect == InitSynced /\ [][NextDetect]_vars

\* A connection on its own: up to MaxMessages messages of up to MaxPayload
\* bytes each, read by the relay in chunks of every size.
Payloads == UNION {[1..n -> {0, 1}] : n \in 0..MaxPayload}

InitFraming ==
    /\ config = NoVoting
    /\ InitVote
    /\ server = BlockchainServerAsync
    /\ manager = WalletManager
    /\ attack_detector = DoubleSpendingDetector
    /\ data_dir = [n \in Nodes |-> <<>>]
    /\ timer = Timer(1)
    /\ connection \in {Connection(sent) :
                          sent \in UNION {[1..n -> Payloads] : n \in 0..MaxMessages}}
    /\ Synced

NextFraming == \E size \in 1..((MaxPayload + 4) * MaxMessages) : Read(size)

SpecFraming == InitFraming /\ [][NextFraming]_vars

\* A node's socket on which the relay has written up to MaxMessages
\* messages, none of them empty, whose bytes arrive in segments of any size.
InitClient ==
    /\ config = NoVoting
    /\ InitVote
    /\ server = BlockchainServerAsync
    /\ manager = WalletManager
    /\ attack_detector = DoubleSpendingDetector
    /\ data_dir = [n \in Nodes |-> <<>>]
    /\ timer = Timer(1)
    /\ connection \in {Socket(sent) :
                          sent \in UNION {[1..n -> Payloads \ {<<>>}] :
                                             n \in 0..MaxMessages}}
    /\ Synced

NextClient ==
    \/ \E size \in 1..((MaxPayload + 4) * MaxMessages) : Arrive(size)
    \/ receive_and_dispatch
    \/ recv

SpecClient == InitClient /\ [][NextClient]_vars

(***************************************************************************)
(* A network with the STEP ticks of the relay.  n1 has staked and forged   *)
(* a block with its STAKE before Joiner started; Joiner has sent its       *)
(* SYNC_REQUEST, n1 has answered it and Joiner's sync Timer is pending.    *)
(* The nodes type tx and stake commands and forge on STEP.                 *)
(***************************************************************************)
\* the block of n1, and the chain store of n1 once it has added it
StakeBlock ==
    Block(1, genesis_block.hash, <<Transaction("n1", "n1", 1, 0, STAKE)>>, "n1", 1)

Staked == add_block(Blockchain, StakeBlock).bc

InitStep ==
    /\ config = NoVoting
    /\ InitVote
    /\ server = BlockchainServerAsync
    /\ manager = WalletManager
    /\ attack_detector = DoubleSpendingDetector
    /\ connection = Connection(<<>>)
    /\ data_dir = [n \in Nodes |-> <<>>]
    /\ timer = Timer(1)
    /\ chain = [n \in Nodes |-> IF n = Joiner THEN Blockchain.chain ELSE Staked.chain]
    /\ blocks_by_hash = [n \in Nodes |-> IF n = Joiner THEN Blockchain.blocks_by_hash
                                         ELSE Staked.blocks_by_hash]
    /\ wallet = [n \in Nodes |-> IF n = Joiner THEN Blockchain.wallet ELSE Staked.wallet]
    /\ reorg_removed = [n \in Nodes |-> Blockchain.reorg_removed]
    /\ mempool = [n \in Nodes |-> <<>>]
    /\ known_nodes = [n \in Nodes |-> Nodes]
    /\ sync_in_progress = [n \in Nodes |-> n = Joiner]
    /\ sync_responses = [n \in Nodes |-> <<>>]
    /\ sync_timers = [n \in Nodes |-> IF n = Joiner THEN 1 ELSE 0]
    /\ inbox = [n \in Nodes |->
                   IF n = Joiner
                   THEN <<[type |-> "SYNC_RESPONSE", sender_id |-> "n1",
                           blocks |-> Staked.chain]>>
                   ELSE <<>>]
    /\ clock = [n \in Nodes |-> IF n = Joiner THEN 0 ELSE 2]
    /\ last = Quiet

\* the relay's _broadcast_step as the nodes see it: a STEP frame of "server"
Step ==
    /\ Broadcast("server", [type |-> "STEP", sender_id |-> "server"])
    /\ inbox' # inbox
    /\ last' = Quiet
    /\ UNCHANGED <<config, connection, attack_detector, data_dir, timer, server, manager, dispatcher, voting, chain, blocks_by_hash, wallet, reorg_removed, mempool,
                   known_nodes, sync_in_progress, sync_responses, sync_timers, clock>>

StepCommands(n) ==
    /\ clock[n] < MaxClock
    /\ \E receiver \in Nodes, amount \in 1..MaxAmount, tx_type \in {TRANSFER, STAKE} :
           create_transaction(n, receiver, amount, tx_type)

NextStep ==
    \/ Step
    \/ \E n \in Nodes :
           \/ StepCommands(n)
           \/ /\ clock[n] < MaxClock
              /\ Last(chain[n]).index < MaxHeight
              /\ _on_step(n)
           \/ Pack(n)
           \/ Forged(n)
           \/ _on_transaction(n)
           \/ _on_block(n)
           \/ _on_sync_response(n)
           \/ _process_sync_responses(n)

SpecStep == InitStep /\ [][NextStep]_vars

(***************************************************************************)
(* A wallet on its own: the calls that a chain store makes on its          *)
(* WalletManager, one at a time and as the transactions that               *)
(* _apply_block_to_wallet applies, each with an amount that it may lack.   *)
(***************************************************************************)
\* one call on the wallet, where r is the [ok, wallet] that the call gives
Call(op, account_id, receiver, amount, validate_only, r) ==
    /\ manager' = [accounts |-> r.wallet,
                   call |-> [op |-> op, account_id |-> account_id,
                             receiver |-> receiver, amount |-> amount,
                             validate_only |-> validate_only],
                   returned |-> r.ok]
    /\ UNCHANGED <<config, connection, attack_detector, data_dir, timer, server, dispatcher, voting, chain, blocks_by_hash,
                   wallet, reorg_removed, mempool, known_nodes,
                   sync_in_progress, sync_responses, sync_timers, inbox, clock,
                   last>>

\* _apply_block_to_wallet refuses an amount that is not positive before it
\* calls the wallet, so the wallet is called with positive amounts only;
\* deposit returns nothing, which TRUE stands for.  The receiver of a STAKE
\* or an UNSTAKE is its sender.
NextWallet ==
    \/ \E a \in Nodes \cup {Responder}, amount \in 1..(MaxAmount + 1) :
           Call("withdraw", a, a, amount, FALSE, withdraw(manager.accounts, a, amount))
    \/ \E a \in Nodes \cup {Responder}, amount \in 1..(MaxAmount + 1) :
           Call("stake_tokens", a, a, amount, FALSE,
                stake_tokens(manager.accounts, a, amount))
    \/ \E a \in Nodes \cup {Responder}, amount \in 1..(MaxAmount + 1) :
           Call("unstake_tokens", a, a, amount, FALSE,
                unstake_tokens(manager.accounts, a, amount))
    \/ \E a \in Nodes \cup {Responder}, amount \in 1..MaxAmount :
           /\ SumTo([i \in DOMAIN manager.accounts |->
                         manager.accounts[i].balance + manager.accounts[i].stake],
                    Len(manager.accounts)) + amount <= MaxFunds
           /\ Call("deposit", a, a, amount, FALSE,
                   [ok |-> TRUE, wallet |-> deposit(manager.accounts, a, amount)])
    \/ \E type \in TxTypes, sender \in Nodes \cup {Responder} :
           \E receiver \in IF type = TRANSFER THEN Nodes \cup {Responder}
                            ELSE {sender} :
               \E amount \in 0..(MaxAmount + 1), validate_only \in BOOLEAN :
                   Call(type, sender, receiver, amount, validate_only,
                        ApplyTx(manager.accounts,
                                Transaction(sender, receiver, amount, 0, type),
                                validate_only))

SpecWallet == InitSynced /\ [][NextWallet]_vars

(***************************************************************************)
(* Properties                                                              *)
(***************************************************************************)
\* C1: in every reachable state of a chain store, for every i > 0,
\* chain[i].prev_hash = chain[i-1].hash and chain[i].index = i (chain[i] of
\* the code is chain[n][i + 1] here).
ChainContinuity ==
    \A n \in Nodes : \A i \in 2..Len(chain[n]) :
        /\ chain[n][i].prev_hash = chain[n][i - 1].hash
        /\ chain[n][i].index = i - 1

\* the wallet that applying blocks to genesis_state under the block
\* application rules gives: [ok, wallet], ok FALSE when a transaction fails
Replay(blocks) == ApplyBlocks(set_state(genesis_state), blocks, FALSE)

SameFunds(w1, w2) ==
    \A a \in Accounts :
        /\ get_balance(w1, a) = get_balance(w2, a)
        /\ get_stake(w1, a) = get_stake(w2, a)

\* C2: between handlers, the live wallet of every chain store equals the
\* wallet obtained from genesis_state by applying every transaction of
\* chain[1..] in block order under the block application rules.
WalletEqualsReplay ==
    \A n \in Nodes :
        LET r == Replay(From(chain[n], 1))
        IN r.ok /\ SameFunds(r.wallet, wallet[n])

\* C3: two chain stores whose wallets hold the same account -> (balance,
\* stake) map and whose heads have the same hash elect the same validator
\* from the same known-validator set (with the same draw, the seed being the
\* head's hash), whatever the history of each wallet.
DeterministicElection ==
    \A n1 \in Nodes, n2 \in Nodes :
        (/\ AccountMap(wallet[n1]) = AccountMap(wallet[n2])
         /\ Last(chain[n1]).hash = Last(chain[n2]).hash)
        => \A known_validators \in SUBSET Accounts, u \in Draws :
               select_validator(wallet[n1], known_validators, u)
                   = select_validator(wallet[n2], known_validators, u)

\* C4: when a call of add_block or reorganize_to_chain leads to a reorg whose
\* candidate chain fails replay, an error is raised, no listener runs, and
\* the wallet, chain and blocks_by_hash are what they were before the call.
ReorgAtomicity ==
    [][last'.replay_failed =>
          /\ last'.raised
          /\ ~last'.reorg
          /\ wallet'[last'.node] = wallet[last'.node]
          /\ chain'[last'.node] = chain[last'.node]
          /\ blocks_by_hash'[last'.node] = blocks_by_hash[last'.node]]_vars

\* C5: when the sync timer of a node fires it clears in_progress; it adopts
\* the longest received chain only if that chain is strictly longer than the
\* local one and its hash sequence differs, and otherwise leaves chain,
\* wallet and mempool as they are; the local chain never gets shorter.
SyncAdoptsOnlyLonger ==
    [][\A n \in Nodes :
          sync_timers'[n] < sync_timers[n] =>
              LET responses == sync_responses[n]
                  best_chain == _select_longest_chain(responses)
                  longer == /\ responses # <<>>
                            /\ Len(best_chain) > Len(chain[n])
                            /\ HashSeq(best_chain) # HashSeq(chain[n])
              IN /\ ~sync_in_progress'[n]
                 /\ ~longer => /\ chain'[n] = chain[n]
                               /\ wallet'[n] = wallet[n]
                               /\ mempool'[n] = mempool[n]
                 /\ Len(chain'[n]) >= Len(chain[n])]_vars

\* the BLOCK frame that node n handles next, if any
NextBlock(n) == Head(inbox[n]).block

HasNextBlock(n) == inbox[n] # <<>> /\ Head(inbox[n]).type = "BLOCK"

\* C6: validate_block(b) is true only if applying b's transactions one after
\* another, in block order, to a copy of the wallet at b's parent succeeds
\* for every transaction (here b's parent is the head: the live wallet).
CumulativeValidation ==
    \A n \in Nodes :
        (/\ HasNextBlock(n)
         /\ NextBlock(n).prev_hash = head(BC(n)).hash
         /\ validate_block(BC(n), NextBlock(n)))
        => ApplyTxs(wallet[n], NextBlock(n).transactions, FALSE).ok

\* C7: for a block b whose parent p is not the head, validate_block(b)
\* judges b against the wallet obtained by replaying the path genesis -> p
\* from genesis_state: its verdict is the one it gives when p is the head
\* and that wallet the live one.
SideBranchValidation ==
    \A n \in Nodes :
        (/\ HasNextBlock(n)
         /\ HasHash(blocks_by_hash[n], NextBlock(n).prev_hash)
         /\ NextBlock(n).prev_hash # head(BC(n)).hash)
        => LET b == NextBlock(n)
               p == Lookup(blocks_by_hash[n], b.prev_hash)
               path == BranchBlocks(blocks_by_hash[n], p)
               at_p == Replay(path.blocks)
           IN (/\ b.index = p.index + 1
               /\ BlockHash(b) = b.hash
               /\ path.ok
               /\ at_p.ok)
              => validate_block(BC(n), b)
                     = _apply_block_to_wallet(at_p.wallet, b, TRUE).ok

\* C8: after a successful reorg (a fork switch inside add_block or a sync
\* adoption), every transaction of a removed block whose identity (sender,
\* receiver, amount and whole second of the timestamp) is not in the new main
\* chain is in the node's mempool.
MempoolRecovery ==
    last.reorg =>
        LET n == last.node
            Identity(tx) ==
                <<tx.sender, tx.receiver, tx.amount, IntTime(tx.timestamp)>>
            confirmed == {Identity(tx) : tx \in Range(BlocksTxs(chain[n]))}
        IN \A tx \in Range(BlocksTxs(reorg_removed[n])) :
               Identity(tx) \notin confirmed => TxIn(tx, mempool[n])

\* C8 happens: a fork switch of add_block has removed a block of the main
\* chain, and a transaction of it whose identity is not in the new chain is
\* back in the mempool
MempoolRecoveryWitness ==
    /\ last.reorg
    /\ Len(chain[last.node]) > 2
    /\ LET n == last.node
           Identity(tx) ==
               <<tx.sender, tx.receiver, tx.amount, IntTime(tx.timestamp)>>
           confirmed == {Identity(tx) : tx \in Range(BlocksTxs(chain[n]))}
       IN \E tx \in Range(BlocksTxs(reorg_removed[n])) :
              Identity(tx) \notin confirmed /\ TxIn(tx, mempool[n])

\* C9: after a successful reorg, no transaction of a block of the new main
\* chain is in the node's mempool.
MempoolEviction ==
    last.reorg =>
        \A tx \in Range(BlocksTxs(chain[last.node])) : ~TxIn(tx, mempool[last.node])

SendValidated ==
    [][\A n \in Nodes :
          (clock'[n] > clock[n] /\ Len(mempool'[n]) > Len(mempool[n])) =>
              LET tx == Last(mempool'[n])
              IN /\ tx.amount > 0
                 /\ tx.type \in {TRANSFER, STAKE} =>
                        get_balance(wallet[n], tx.sender) >= tx.amount
                 /\ tx.type = UNSTAKE =>
                        get_stake(wallet[n], tx.sender) >= tx.amount]_vars

RatifiedIsApplied ==
    [][\A n \in Nodes :
          \A block_hash \in DOMAIN pending_blocks[n] \cap DOMAIN pending_block_votes[n] :
              (/\ block_hash \notin DOMAIN pending_blocks'[n]
               /\ \E staked \in 1..Cardinality(known_nodes[n]) :
                      /\ staked >= Cardinality({v \in known_nodes[n] :
                                                   get_stake(wallet[n], v) > 0})
                      /\ staked = 1 \/ staked = Cardinality({v \in known_nodes[n] :
                                                   get_stake(wallet[n], v) > 0})
                      /\ Cardinality(pending_block_votes[n][block_hash]) * 100
                             >= config.vote.threshold * staked)
                  => pending_blocks[n][block_hash] \in blocks_by_hash'[n]]_vars

\* C14: when the vote Timer of a pending block fires and the block has not
\* been applied, the block leaves the pending table together with its vote
\* set, no chain and no mempool changes in that step; and a BLOCK_VOTE for a
\* block that is not pending is taken off the queue with no other effect
\* on the pending table, the vote sets and the chain.
TimeoutDiscards ==
    [][\A n \in Nodes :
          /\ \A block_hash \in vote_timers[n] \ vote_timers'[n] :
                 (/\ block_hash \in DOMAIN pending_blocks[n]
                  /\ ~HasHash(blocks_by_hash[n], block_hash))
                     => /\ block_hash \notin DOMAIN pending_blocks'[n]
                        /\ block_hash \notin DOMAIN pending_block_votes'[n]
                        /\ chain' = chain
                        /\ blocks_by_hash' = blocks_by_hash
                        /\ mempool' = mempool
          /\ (/\ Idle(n)
              /\ inbox[n] # <<>>
              /\ Head(inbox[n]).type = "BLOCK_VOTE"
              /\ Head(inbox[n]).block_hash \notin DOMAIN pending_blocks[n]
              /\ inbox'[n] = Tail(inbox[n]))
                 => /\ pending_blocks' = pending_blocks
                    /\ pending_block_votes' = pending_block_votes
                    /\ chain' = chain
                    /\ Idle(n)']_vars

\* the vote Timer of a block that n forged has fired, the block was
\* discarded, and a vote for it heads the queue of n
TimeoutDiscardsWitness ==
    \E n \in Nodes :
        /\ inbox[n] # <<>>
        /\ Head(inbox[n]).type = "BLOCK_VOTE"
        /\ LET block_hash == Head(inbox[n]).block_hash
           IN /\ block_hash[4] = n
              /\ block_hash \notin DOMAIN pending_blocks[n]
              /\ block_hash \notin vote_timers[n]
              /\ ~HasHash(blocks_by_hash[n], block_hash)
              /\ \E tx \in Range(mempool[n]) : <<tx_id(tx)>> = block_hash[5]

\* C15: a Timer callback never runs inside a message handler: while
\* _on_block_vote is between its test of the pending table and its last
\* statement, the entry it found is still in pending_blocks and in
\* pending_block_votes (so that no block is applied by the handler and
\* discarded by the timeout).
HandlersAtomic ==
    \A n \in Nodes :
        dispatcher[n].at \in {"recording", "clearing"} =>
            /\ dispatcher[n].block_hash \in DOMAIN pending_blocks[n]
            /\ dispatcher[n].block_hash \in DOMAIN pending_block_votes[n]

\* C16: a BLOCK_VOTE whose block_hash is not pending, or whose voter_id
\* names an account with stake <= 0, is taken off the queue with the pending
\* table and every vote set unchanged and the handler ended; and every
\* identifier that enters a vote set has a positive stake in the wallet of
\* the node at that moment.
OnlyStakedVoters ==
    [][\A n \in Nodes :
          /\ (/\ Idle(n)
              /\ inbox[n] # <<>>
              /\ Head(inbox[n]).type = "BLOCK_VOTE"
              /\ inbox'[n] = Tail(inbox[n])
              /\ \/ Head(inbox[n]).block_hash \notin DOMAIN pending_blocks[n]
                 \/ get_stake(wallet[n], Head(inbox[n]).voter_id) <= 0)
                 => /\ Idle(n)'
                    /\ pending_blocks' = pending_blocks
                    /\ pending_block_votes' = pending_block_votes
          /\ \A block_hash \in DOMAIN pending_block_votes'[n] :
                 \A voter_id \in pending_block_votes'[n][block_hash]
                                   \ (IF block_hash \in DOMAIN pending_block_votes[n]
                                      THEN pending_block_votes[n][block_hash] ELSE {}) :
                     get_stake(wallet[n], voter_id) > 0]_vars

RelayOrder ==
    \A q \in Range(server.clients) \ {Last(server.clients)} :
        \A i, j \in DOMAIN server.written[q] :
            (/\ i < j
             /\ server.written[q][i].delay = 0
             /\ server.written[q][j].delay = 0)
                => \E a, b \in DOMAIN server.received :
                       /\ a < b
                       /\ server.received[a] = server.written[q][i].frame
                       /\ server.received[b] = server.written[q][j].frame

\* C20: two frames of one source that the relay wrote to one client after
\* the same delay d > 0 were written in the order in which the relay read
\* them.
DelayedOrder ==
    \A q \in Range(server.clients) :
        \A i, j \in DOMAIN server.written[q] :
            (/\ i < j
             /\ server.written[q][i].frame.sender_id
                    = server.written[q][j].frame.sender_id
             /\ server.written[q][i].delay > 0
             /\ server.written[q][i].delay = server.written[q][j].delay)
                => server.written[q][i].frame.seq < server.written[q][j].frame.seq

\* two frames of one source have been written to one client after the same
\* delay
DelayedOrderWitness ==
    \E q \in Range(server.clients) :
        \E i, j \in DOMAIN server.written[q] :
            /\ i < j
            /\ server.written[q][i].frame.sender_id
                   = server.written[q][j].frame.sender_id
            /\ server.written[q][i].delay > 0
            /\ server.written[q][i].delay = server.written[q][j].delay

\* C29: a Timer with repeat = n >= 1 that is started and never stopped calls
\* its callback n times and no more, and is no longer running once it has;
\* a Timer with repeat = -1 that is started and never stopped stays running,
\* with a threading.Timer armed or its thread in _run.
RunsRepeatTimes ==
    ~timer.stopped =>
        /\ timer.running => timer.timer = "armed" \/ timer.run # "idle"
        /\ timer.repeat >= 1 =>
               /\ timer.calls <= timer.repeat
               /\ (timer.timer # "None" /\ ~timer.running) =>
                      /\ timer.calls = timer.repeat
                      /\ timer.timer = "fired" /\ timer.stale = 0
                      /\ timer.run = "idle"
        /\ (timer.repeat = 0 - 1 /\ timer.timer # "None") => timer.running

\* a Timer with the largest repeat count has run to its end without a stop
RunsRepeatTimesWitness ==
    /\ ~timer.stopped
    /\ timer.repeat = MaxRepeat
    /\ timer.calls = MaxRepeat
    /\ ~timer.running

\* C30: no call of the callback begins once stop has returned, so the
\* callback of a Timer that is stopped before its first threading.Timer
\* fires is never called; and a stop of a Timer that is not running and has
\* no threading.Timer armed changes none of its fields.
StopIsFinal ==
    /\ [](~timer.late)
    /\ [][(/\ timer'.returned
           /\ ~timer.running /\ timer.timer # "armed"
           /\ timer'.run = timer.run /\ timer'.stale = timer.stale)
              => /\ timer'.running = timer.running
                 /\ timer'.timer = timer.timer
                 /\ timer'.counter = timer.counter]_vars

\* C21: in every step, each turn that a broadcast takes for a client writes
\* the frame to it once (or hands it to a delayed send) when the client is
\* not in the drop set and its connection is not lost, and writes nothing
\* to it when it is in the drop set, for the frames read from clients and
\* for the relay's own STEP and BYE frames alike; and no client is ever
\* written a frame that it sent.
DropRule ==
    /\ [](\A q \in DOMAIN server.written :
              \A i \in DOMAIN server.written[q] :
                  server.written[q][i].frame.sender_id # q)
    /\ [][\A p \in DOMAIN server.fanout :
              LET frame == server'.fanout[p].frame
                  Other(q) == q # p
                  full == IF frame = server.fanout[p].frame
                          THEN server.fanout[p].todo
                          ELSE IF p \in Range(ByeTask) THEN server'.fanout[p].todo
                          ELSE SelectSeq(server.clients, Other)
                  Copies(s, q) ==
                      Cardinality({i \in DOMAIN s.written[q] :
                                      s.written[q][i].frame = frame})
                        + Cardinality({t \in s.sleeping :
                                          t.to = q /\ t.frame = frame})
              IN \A k \in 1..(Len(full) - Len(server'.fanout[p].todo)) :
                     Copies(server', full[k])
                       = Copies(server, full[k])
                           + (IF \/ full[k] \in server'.drop_set
                                 \/ full[k] \in server.closed
                              THEN 0 ELSE 1)]_vars

\* a STEP frame and a frame of a client have each been broadcast to the end:
\* written to one client and not to another, which was in the drop set
DropRuleWitness ==
    \E q \in DOMAIN server.written, r \in DOMAIN server.written :
        /\ server.fanout["server"].todo = <<>>
        /\ server.fanout["server"].frame.type = "STEP"
        /\ server.fanout["server"].frame.seq = 1
        /\ \E i \in DOMAIN server.written[q] :
               server.written[q][i].frame = server.fanout["server"].frame
        /\ \A i \in DOMAIN server.written[r] :
               server.written[r][i].frame.type = "BYE"
        /\ server.received # <<>>
        /\ server.fanout[server.received[1].sender_id].todo = <<>>
        /\ \E i \in DOMAIN server.written[q] :
               server.written[q][i].frame = server.received[1]
        /\ r # server.received[1].sender_id
        /\ r \notin server.closed

\* C22: once _disconnect_client has been called for a client that said
\* HELLO, by its reader task, after a failed send or by both, the client is
\* out of the table of clients and one broadcast of BYE with its id has
\* begun, and no more than one; no client is written that BYE twice, the
\* client itself never, and when the broadcast has ended every client that
\* is left, is not lost and was never dropped has been written it.
OneBye ==
    \A q \in DOMAIN server.noticed :
        LET job == server.fanout[ByeTask[q]]
            Byes(r) == {i \in DOMAIN server.written[r] :
                           /\ server.written[r][i].frame.type = "BYE"
                           /\ server.written[r][i].frame.sender_id = q}
        IN /\ job.frame.seq <= 1
           /\ server.noticed[q] # {} <=> job.frame.seq = 1
           /\ server.noticed[q] # {} <=> q \notin Range(server.clients)
           /\ Byes(q) = {}
           /\ \A r \in DOMAIN server.written :
                  /\ Cardinality(Byes(r)) <= 1
                  /\ (/\ job.frame.seq = 1 /\ job.todo = <<>>
                      /\ r \in Range(server.clients)
                      /\ r \notin server.closed
                      /\ r # Last(BlockchainServerAsync.clients))
                         => Byes(r) # {}

\* the loss of a connection has been noticed both by its reader task and
\* after a failed send, and the BYE has been broadcast to the end
OneByeWitness ==
    \E q \in DOMAIN server.noticed :
        /\ server.noticed[q] = {"reader", "send"}
        /\ server.fanout[ByeTask[q]].todo = <<>>
        /\ \E r \in DOMAIN server.written :
               \E i \in DOMAIN server.written[r] :
                   /\ server.written[r][i].frame.type = "BYE"
                   /\ server.written[r][i].frame.sender_id = q

\* C23: _graceful_shutdown takes no turn of its loop that closes the
\* connections before BYE from "server" has been written to every client
\* that was connected at the exit command and whose connection is not lost;
\* a node ends wait_loop only on a BYE from "server" that the relay has
\* written to it, with its chain saved, and changes its known nodes only by
\* removing the sender of a BYE written to it that is not "server".
ByeBeforeClose ==
    [][LET Bye(q, sender_id) ==
               \E i \in DOMAIN server.written[q] :
                   /\ server.written[q][i].frame.type = "BYE"
                   /\ server.written[q][i].frame.sender_id = sender_id
       IN /\ (server.exit.at # "no" /\ server'.exit # server.exit)
                => \A q \in Range(server.exit.peers) :
                       Bye(q, "server") \/ q \in server.closed
          /\ \A n \in Nodes :
                 /\ (dispatcher'[n] # dispatcher[n] \/ data_dir'[n] # data_dir[n])
                       => /\ Bye(n, "server")
                          /\ dispatcher'[n].at = "exited"
                          /\ data_dir'[n] = chain[n]
                          /\ known_nodes'[n] = known_nodes[n]
                 /\ known_nodes'[n] # known_nodes[n]
                       => /\ \E sender_id \in known_nodes[n] :
                                 /\ sender_id # "server"
                                 /\ Bye(n, sender_id)
                                 /\ known_nodes'[n] = known_nodes[n] \ {sender_id}
                          /\ dispatcher'[n] = dispatcher[n]
                          /\ data_dir'[n] = data_dir[n]]_vars

\* the relay has shut down with a client in the drop set at the exit
\* command, and a node has ended on the BYE from "server" after it had
\* removed a node on that node's BYE
ByeBeforeCloseWitness ==
    /\ server.exit.at = "done"
    /\ Len(server.exit.peers) = Len(BlockchainServerAsync.clients) - 1
    /\ \E n \in Nodes :
           /\ dispatcher[n].at = "exited"
           /\ data_dir[n] = chain[n]
           /\ known_nodes[n] # Nodes

\* C25: a call of add_transaction with a transaction whose from_address is
\* its to_address returns no pattern and leaves detected_attacks as it was,
\* whatever the detector holds and whatever its threshold; and no pattern in
\* detected_attacks has a transfer to oneself among its two transactions or
\* in one of its conflicts, though the blocks stored hold such transfers.
SelfTransfersSkipped ==
    /\ [](\A i \in DOMAIN attack_detector.detected_attacks :
              LET pattern == attack_detector.detected_attacks[i]
              IN IF pattern.type = "POTENTIAL_DOUBLE_SPENDING"
                 THEN \A k \in DOMAIN pattern.transactions :
                          pattern.transactions[k].to # pattern.description.from_addr
                 ELSE \A k \in DOMAIN pattern.conflicts_detail :
                          LET conflict == pattern.conflicts_detail[k]
                          IN /\ conflict.to1 # conflict.from_address
                             /\ conflict.to2 # conflict.from_address)
    /\ [][(/\ attack_detector'.calls # attack_detector.calls
           /\ attack_detector'.call.op = "add_transaction"
           /\ attack_detector'.call.data.from_address
                 = attack_detector'.call.data.to_address)
             => /\ attack_detector'.returned = <<>>
                /\ attack_detector'.detected_attacks
                      = attack_detector.detected_attacks
                /\ attack_detector'.transactions_by_sender
                      = attack_detector.transactions_by_sender]_vars

\* a transfer to oneself was given to add_transaction, with no threshold to
\* pass, after a fork was detected between a block that held a stake and
\* another
SelfTransfersSkippedWitness ==
    /\ attack_detector.call.op = "add_transaction"
    /\ attack_detector.call.data.from_address = attack_detector.call.data.to_address
    /\ attack_detector.call.data.amount > 0
    /\ attack_detector.similarity_threshold = 0
    /\ attack_detector.returned = <<>>
    /\ \E i \in DOMAIN attack_detector.detected_attacks :
           /\ attack_detector.detected_attacks[i].type = "FORK_DOUBLE_SPENDING"
           /\ attack_detector.detected_attacks[i].fork_info.conflicts = 1
           /\ \E k \in DOMAIN attack_detector.recent_blocks :
                  \E b \in Range(attack_detector.recent_blocks[k].blocks) :
                      Len(b.transactions) = 2

\* C26: when add_transaction is given the transaction that the call before
\* was given, the two calls do not both return a pattern; and no two
\* patterns in detected_attacks are of the same two transactions.
AtMostOneAlert ==
    /\ [](\A i, j \in DOMAIN attack_detector.detected_attacks :
              LET one == attack_detector.detected_attacks[i]
                  other == attack_detector.detected_attacks[j]
                  Pair(pattern) == {pattern.transactions[1].tx_id,
                                    pattern.transactions[2].tx_id}
              IN (/\ i # j
                  /\ one.type = "POTENTIAL_DOUBLE_SPENDING"
                  /\ other.type = "POTENTIAL_DOUBLE_SPENDING")
                    => Pair(one) # Pair(other))
    /\ [][(/\ attack_detector'.calls # attack_detector.calls
           /\ attack_detector.call.op = "add_transaction"
           /\ attack_detector'.call = attack_detector.call)
             => \/ attack_detector.returned = <<>>
                \/ attack_detector'.returned = <<>>]_vars

\* C24: the step in which the relay reads a frame starts the broadcast of
\* that frame, unchanged, over all the other clients, and each turn that the
\* broadcast takes then or later for a client that is not in the drop set
\* writes the frame to it, whether the detection returned patterns, returned
\* none, was not reached or raised, and whether a callback of the alert
\* manager raised.
ForwardedWhateverDetected ==
    [][\A p \in {"n1", "n2"} :
           LET frame == server'.fanout[p].frame
               Other(q) == q # p
               read == Len(server'.received) > Len(server.received)
                          /\ Last(server'.received).sender_id = p
               full == IF read THEN SelectSeq(server.clients, Other)
                       ELSE server.fanout[p].todo
               Written(s, q) ==
                   Cardinality({i \in DOMAIN s.written[q] :
                                   s.written[q][i].frame = frame})
           IN /\ read => frame = Last(server'.received)
              /\ ~read => frame = server.fanout[p].frame
              /\ \E k \in 0..Len(full) :
                     /\ server'.fanout[p].todo = SubSeq(full, k + 1, Len(full))
                     /\ \A i \in 1..k :
                            Written(server', full[i])
                              = Written(server, full[i])
                                  + (IF full[i] \in server.drop_set THEN 0 ELSE 1)]_vars

\* the relay has read a frame for which the detector returned a pattern
\* while a callback raised, after one in whose detection an exception was
\* raised, and has written both to a client that did not send them
ForwardedWhateverDetectedWitness ==
    \E q \in Range(server.clients) : \E i, j \in DOMAIN server.received :
        /\ i < j /\ j = Len(server.received)
        /\ attack_detector.raised = "callback"
        /\ attack_detector.returned # <<>>
        /\ attack_detector.calls = j - 1
        /\ \A k \in {i, j} :
               /\ server.received[k].sender_id # q
               /\ \E w \in DOMAIN server.written[q] :
                      server.written[q][w].frame = server.received[k]

\* C27: the step in which the relay reads a BLOCK frame, and in which
\* nothing raises, calls add_block for it and leaves the block in the block
\* window of the client that sent it; and when the relay has read before,
\* from another client, a block of the same index and another hash with a
\* transaction that conflicts with one of the new block (same sender, other
\* receiver, neither to oneself, amounts within 20% of the larger), the call
\* returns a FORK_DOUBLE_SPENDING pattern, CRITICAL, of confidence 0.95.
BlocksInspected ==
    [][(/\ Len(server'.received) > Len(server.received)
        /\ Last(server'.received).type = "BLOCK"
        /\ attack_detector'.raised = "None")
          => LET frame == Last(server'.received)
                 Clash(tx1, tx2) ==
                     /\ tx1.sender # tx1.receiver /\ tx2.sender # tx2.receiver
                     /\ tx1.sender = tx2.sender /\ tx1.receiver # tx2.receiver
                     /\ 5 * Abs(tx1.amount - tx2.amount)
                           <= Max(tx1.amount, tx2.amount)
                 Fork(other) ==
                     /\ other.type = "BLOCK"
                     /\ other.sender_id # frame.sender_id
                     /\ other.block.index = frame.block.index
                     /\ other.block.hash # frame.block.hash
                     /\ \E tx1 \in Range(frame.block.transactions) :
                            \E tx2 \in Range(other.block.transactions) :
                                Clash(tx1, tx2)
             IN /\ attack_detector'.calls = attack_detector.calls + 1
                /\ attack_detector'.call.op = "add_block"
                /\ \E k \in DOMAIN attack_detector'.recent_blocks :
                       /\ attack_detector'.recent_blocks[k].node_id
                             = frame.sender_id
                       /\ \E b \in Range(attack_detector'.recent_blocks[k].blocks) :
                              b.block_height = frame.block.index
                /\ (\E i \in DOMAIN server.received : Fork(server.received[i]))
                      => \E pattern \in Range(attack_detector'.returned) :
                             /\ pattern.type = "FORK_DOUBLE_SPENDING"
                             /\ pattern.severity = "CRITICAL"
                             /\ pattern.confidence = 950]_vars

\* C28: however the bytes of a connection are cut into the chunks that the
\* reads return, the messages handed to _handle_message are at every moment
\* the first of the messages sent, each once and in their order, and when
\* all bytes are read they are all the messages sent, the buffer is empty,
\* and they are the messages that one read of the whole stream hands over.
FramingCorrect ==
    /\ Len(connection.messages) <= Len(connection.sent)
    /\ connection.messages
          = SubSeq(connection.sent, 1, Len(connection.messages))
    /\ connection.wire = <<>>
          => /\ connection.messages = connection.sent
             /\ connection.buffer = <<>>
             /\ connection.messages
                   = Unframe([Connection(connection.sent) EXCEPT
                                 !.buffer = connection.stream]).messages

\* the messages have been read to the end in chunks of which one ended in
\* a header, one in a payload and the last at the end of the stream
FramingCorrectWitness ==
    /\ connection.wire = <<>>
    /\ Len(connection.messages) = MaxMessages
    /\ Len(connection.messages[1]) = MaxPayload
    /\ connection.cuts = {"header", "payload", "frame"}
    /\ connection.messages[MaxMessages] # <<>>

\* C31: select_validator(V) returns a member of V with stake > 0 whenever
\* some member of V has stake > 0; otherwise a member of V with balance > 0
\* whenever one exists; and None exactly when no member of V has a positive
\* stake or a positive balance.  It never returns an identifier outside V
\* or one whose weight in the pass used is zero.
ElectsWeighted ==
    \A V \in SUBSET Accounts, u \in Draws :
        LET w == manager.accounts
            selected == select_validator(w, V, u)
            staked == {v \in V : get_stake(w, v) > 0}
            funded == {v \in V : get_balance(w, v) > 0}
        IN /\ staked # {} => selected \in staked
           /\ (staked = {} /\ funded # {}) => selected \in funded
           /\ selected = None <=> (staked = {} /\ funded = {})
           /\ selected # None => selected \in V

\* a wallet where one account has a stake only, another a balance only and
\* a third was emptied, after a call that moved funds
ElectsWeightedWitness ==
    /\ manager.call.op \in {"stake_tokens", STAKE, "withdraw", TRANSFER}
    /\ manager.returned
    /\ \E a \in Accounts, b \in Accounts, c \in Accounts :
           /\ get_stake(manager.accounts, a) > 0
           /\ get_balance(manager.accounts, a) = 0
           /\ get_stake(manager.accounts, b) = 0
           /\ get_balance(manager.accounts, b) > 0
           /\ HasAccount(manager.accounts, c)
           /\ get_stake(manager.accounts, c) = 0
           /\ get_balance(manager.accounts, c) = 0

\* C32: in every reachable state the mempool of a node holds no two equal
\* transactions (same sender, receiver and type, same amount, same whole
\* second of the timestamp), after any sequence of local sends, received
\* TRANSACTION messages, block applications and reorg recoveries.
MempoolDeduplicated ==
    \A n \in Nodes : \A i \in DOMAIN mempool[n], j \in DOMAIN mempool[n] :
        i # j => ~TxEq(mempool[n][i], mempool[n][j])

\* C33: every BLOCK that a node broadcasts in response to STEP is the block
\* of a node that select_validator(known_nodes) can return on the node's
\* chain store as it is when the block goes out, has at least one
\* transaction, index = head.index + 1, prev_hash = head.hash and the node
\* as validator; and when the node is not elected, or no transaction of the
\* mempool passes validation, the handler broadcasts nothing and leaves the
\* chain, the funds of the wallet and the mempool as they were.
StepForgesElected ==
    [][\A n \in Nodes :
          /\ (dispatcher[n].at = "elected" /\ dispatcher'[n].at = "sent")
                => LET block == dispatcher'[n].block
                   IN /\ \E u \in Draws :
                             select_validator(wallet'[n], known_nodes'[n], u) = n
                      /\ Len(block.transactions) >= 1
                      /\ block.index = Last(chain'[n]).index + 1
                      /\ block.prev_hash = Last(chain'[n]).hash
                      /\ block.validator = n
          /\ (\/ /\ dispatcher[n].at = "idle"
                 /\ inbox[n] # <<>>
                 /\ Head(inbox[n]).type = "STEP"
                 /\ inbox'[n] = Tail(inbox[n])
                 /\ dispatcher'[n].at = "idle"
              \/ /\ dispatcher[n].at = "elected"
                 /\ dispatcher'[n].at = "idle")
                => /\ \A m \in Nodes \ {n} : inbox'[m] = inbox[m]
                   /\ chain'[n] = chain[n]
                   /\ blocks_by_hash'[n] = blocks_by_hash[n]
                   /\ SameFunds(wallet'[n], wallet[n])
                   /\ mempool'[n] = mempool[n]]_vars

\* C34: a POTENTIAL_DOUBLE_SPENDING pattern has severity LOW when its
\* confidence is below 0.6, MEDIUM when its confidence is at least 0.6 and
\* below 0.8, and HIGH when its confidence is at least 0.8.
SeverityBands ==
    \A i \in DOMAIN attack_detector.detected_attacks :
        LET pattern == attack_detector.detected_attacks[i]
        IN pattern.type = "POTENTIAL_DOUBLE_SPENDING"
              => pattern.severity =
                     (IF pattern.confidence < 600 THEN "LOW"
                      ELSE IF pattern.confidence < 800 THEN "MEDIUM" ELSE "HIGH")

\* the transactions whose similarity is computed: transfers of two senders
\* to two receivers and to nobody, a transfer to oneself, amounts alike,
\* 1/30 apart, a tenth apart, a third apart, and none
ScoreInputs ==
    [from_address : {"n1", "n2"}, to_address : {"n1", "n2", "n3", ""},
     amount : {0, 18, 20, 29, 30}]

\* the score in thousandths as C35 words it
Score(tx1, tx2) ==
    LET larger == Max(tx1.amount, tx2.amount)
        d == Abs(tx1.amount - tx2.amount)
    IN IF tx1.from_address # tx2.from_address THEN 0
       ELSE IF tx1.from_address = tx1.to_address
                  \/ tx2.from_address = tx2.to_address THEN 0
       ELSE 500
            + (IF tx1.to_address = tx2.to_address THEN 100
               ELSE IF tx1.to_address # "" /\ tx2.to_address # "" THEN 200 ELSE 0)
            + (IF tx1.amount > 0 /\ tx2.amount > 0
               THEN IF d = 0 THEN 300
                    ELSE IF 10 * d <= larger
                         THEN (300 * (larger - 10 * d)) \div larger ELSE 0
               ELSE 0)

ClientFramingCorrect ==
    /\ connection.at # "returned"
    /\ Len(connection.messages) <= Len(connection.sent)
    /\ connection.messages = SubSeq(connection.sent, 1, Len(connection.messages))
    /\ (/\ connection.wire = <<>>
        /\ connection.available = <<>>
        /\ connection.at = "select") => connection.messages = connection.sent

\* C37: a transaction leaves the mempool of a node only in a step after
\* which it is in a block of the node's main chain; a step that stores a
\* block on a side branch, or in which the block is refused, removes
\* nothing from the mempool.
RemovedOnlyWhenOnChain ==
    [][\A n \in Nodes :
          LET Count(pool, tx) == Cardinality({i \in DOMAIN pool : pool[i] = tx})
          IN \A tx \in Range(mempool[n]) :
                 Count(mempool'[n], tx) < Count(mempool[n], tx)
                    => TxIn(tx, BlocksTxs(chain'[n]))]_vars

\* C38: every block a node broadcasts from forge_block passes that node's
\* own validate_block on the chain store the node holds when it sends the
\* frame: a BLOCK frame of sender n that a step adds to another node's queue
\* carries a block that validate_block of n accepts.
ForgedBlockValid ==
    [][\A n \in Nodes :
          \A m \in Nodes \ {n} :
          \A i \in (Len(inbox[m]) + 1)..Len(inbox'[m]) :
              (inbox'[m][i].type = "BLOCK" /\ inbox'[m][i].sender_id = n)
                 => validate_block(BC(n), inbox'[m][i].block)]_vars

\* C39: in every reachable state the sum of balance + stake over all
\* accounts of a node's live wallet equals the same sum over genesis_state,
\* whatever blocks the node has applied, reorganised to or adopted from a
\* sync.
Funds(w) == SumTo([i \in DOMAIN w |-> w[i].balance + w[i].stake], Len(w))

PendingConsistent ==
    \A n \in Nodes :
        Idle(n) =>
            /\ DOMAIN pending_blocks[n] = DOMAIN pending_block_votes[n]
            /\ \A i \in DOMAIN chain[n] :
                   chain[n][i].hash \notin DOMAIN pending_blocks[n]

====
